---- MODULE Spec2Model ----
(***************************************************************************)
(* Model of the netsblox-vm-esp32 firmware core:                           *)
(*   - the peripheral broker (src/src/platform.rs: GpioManager,            *)
(*     PwmManager, bind_syscalls and the syscall request handler),         *)
(*   - the scheduler loop and the HTTP control plane (src/src/lib.rs).     *)
(*   - the reply table of the message bus (src/src/system.rs).             *)
(* The module carries several specifications over one set of variables:    *)
(*   SpecBind      bind_syscalls over layouts of mixed kinds               *)
(*   SpecPwm       bind_syscalls over motor-only layouts (PWM pool)        *)
(*   SpecDispatch  the syscall request handler on a bound device set       *)
(*   SpecSched     the scheduler loop against the HTTP handlers            *)
(*   SpecProject   the loop against POST /project, loads that fail included*)
(*   SpecPull      the step batch against POST /pull                       *)
(*   SpecReply     send_message, the __reply__ frames and poll_reply       *)
(*   SpecWifi      POST /wifi on the store                                 *)
(*   SpecStore     the handlers that write the store, POST /wipe included  *)
(*   SpecBoot      the first Env, built from the stored project            *)
(*   SpecBatch     the batch of 128 steps against POST /toggle-paused      *)
(*   SpecOut       the shaping and sender threads of the message bus       *)
(*   SpecPulse     one HCSR04 measurement, poll by poll                    *)
(*   SpecIn        ws_on_msg on inbound message frames, receive_message    *)
(*   SpecPollAny   poll_reply on keys with and without an entry            *)
(*   SpecSection   the pushes of one message, one by one, against /pull    *)
(*   SpecMutate    the loop, the handlers and the callback side by side    *)
(*   SpecDrain     the loop under weak fairness of its steps               *)
(***************************************************************************)
EXTENDS Integers, Sequences, FiniteSets, TLC

VARIABLES
    \* ---- bind_syscalls (platform.rs:381-579)
    bpc,            \* which kind's loop bind_syscalls is in
    pins,           \* GpioManager.pins: the pin numbers whose slot is Some(())
    pwmsSome,       \* whether PwmManager::new succeeded (pwms is Some)
    channels,       \* PwmManager: the channel numbers whose slot is Some
    errors,         \* Vec<InitError>
    i2c,            \* the shared bus: [some, sda, scl]
    digital_ins,    \* BTreeMap name -> DigitalInController
    digital_outs,   \* BTreeMap name -> DigitalOutController
    motors,         \* BTreeMap name -> MotorController (the local `motors`)
    motor_groups,   \* BTreeMap name -> Vec<Rc<MotorController>> (the local `res`)
    hcsr04s,        \* BTreeMap name -> HCSR04Controller
    i2c_devices,    \* kind -> BTreeMap name -> I2C device driver (max30205s .. veml7700s)
    menu_content,   \* the current kind's menu_content
    syscalls,       \* Vec<SyscallMenu>
    log,            \* history: the layout entries read so far, each with its outcome
    \* ---- the syscall request handler (platform.rs:776-969)
    duty,           \* motor name -> [positive, negative] duty of the two LEDC drivers
    level,          \* digital out name -> driven pin level ("High" / "Low")
    pixel,          \* the last pixel written to an IS31FL3741 matrix
    call,           \* the request being handled, and how far the handler got
    \* ---- scheduler loop and control plane (lib.rs)
    commands,       \* RuntimeContext.commands
    inflight,       \* handler calls that have read their body and not yet locked the runtime
    running,        \* RuntimeContext.running
    spc,            \* the scheduler loop's position
    command,        \* the loop's local `command` (popped, not yet applied)
    enqueued,       \* history: every command appended, in append order
    applied,        \* history: every command applied, in application order
    nextId,         \* history: the number of handler calls made so far
    \* ---- the running project, its store and the rings (lib.rs)
    running_env,    \* the project XML the running Env was compiled from
    env_inputs,     \* the inputs the running Env has been given (Project::input)
    project,        \* the stored `project` entry (<<>> for None, <<xml>> for Some)
    output,         \* RuntimeContext.output: the messages in the ring, oldest first
    runtime_errors, \* RuntimeContext.errors: the error lines in the ring, oldest first
    pulls,          \* history: what the calls of POST /pull returned, and when the last one ran
    nextLine,       \* history: the number of messages pushed to the rings so far
    \* ---- the reply table of the message bus (system.rs)
    message_replies, \* BTreeMap ExternReplyKey -> ReplyEntry: request id -> <<>> or <<[expiry, value]>>
    clock,          \* the reading of the system clock, in ms
    waiting,        \* the reply keys held by processes of the running Env
    reply_op,       \* history: the last operation on the reply table and its result
    \* ---- the wifi entries of the store and POST /wifi (storage.rs, lib.rs)
    nvs,            \* storage key -> <<>> (absent) or <<value>>; `proj` is the variable project
    wifi_op,        \* history: the last request to a handler that writes the store, and its response
    \* ---- the step batch of the loop (lib.rs:656-678)
    batch_i,        \* the number of steps the `for _ in 0..STEP_BATCH_SIZE` has made
    steps_since_gc, \* the loop's local `steps_since_gc`
    step_res,       \* history: what the last project.step returned
    \* ---- the outgoing path of the message bus (system.rs:88-202)
    msg_out,        \* the channel of OutgoingMessage (msg_out_sender -> msg_out_receiver)
    ws_chan,        \* the channel of frames (ws_sender, ws_sender_clone -> ws_receiver)
    shaping,        \* the request the shaping thread has received and not yet sent on
    sending,        \* the packet the sender thread has received and not yet sent
    wire,           \* the frames handed to the web-socket client, in order
    sent,           \* history: the messages the scheduler task sent, in call order
    \* ---- one HCSR04 measurement (platform.rs:296-310, 358-366)
    pulse,          \* position in get_distance/measure_pulse, its instants, the echo signal
    \* ---- the incoming path of the message bus (system.rs:92, 103-154, 365-367)
    msg_in,         \* the channel of IncomingMessage (msg_in_sender -> message_receiver)
    ws_frame        \* history: the last frame handed to ws_on_msg and what came of it

bindVars == <<bpc, pins, pwmsSome, channels, errors, i2c, digital_ins, digital_outs,
              motors, motor_groups, hcsr04s, i2c_devices, menu_content, syscalls, log>>
callVars == <<duty, level, pixel, call>>
schedVars == <<commands, inflight, running, spc, command, enqueued, applied, nextId>>
projVars == <<running_env, env_inputs, project, output, runtime_errors, pulls, nextLine>>
replyVars == <<message_replies, clock, waiting, reply_op>>
wifiVars == <<nvs, wifi_op>>
batchVars == <<batch_i, steps_since_gc, step_res>>
outVars == <<msg_out, ws_chan, shaping, sending, wire, sent>>
pulseVars == <<pulse>>
inVars == <<msg_in, ws_frame>>
busVars == <<replyVars, wifiVars, batchVars, outVars, pulseVars, inVars>>
vars == <<bindVars, callVars, schedVars, projVars, busVars>>

\* ------------------------------------------------------------------ bounds

\* Layout entries read by one run of bind_syscalls (all kinds together).
MaxEntries == 2
\* Motor entries of a motor-only layout.
MaxMotorEntries == 5

\* ------------------------------------------------------- program constants

\* GpioManager::new: the pin domain is 0..=48.
LastPin == 48
\* PwmManager: channel0..channel7.
NumPwmChannels == 8

\* ------------------------------------------------------------- input sets

Names == {"a", "b"}
\* Pin numbers a layout may name: two general-purpose pins, an input-only pin,
\* and a number outside the pin domain.
PinChoices == {4, 5, 34, 49}
\* Pins on which PinDriver::output / input_output fails (input-only pads).
InputOnlyPins == {34}

NoPin == 0 - 1

\* --------------------------------------------------------------- results

Ok(v) == [ok |-> TRUE, val |-> v, tag |-> "", pin |-> NoPin, name |-> ""]
PinErr(t, p) == [ok |-> FALSE, val |-> NoPin, tag |-> t, pin |-> p, name |-> ""]
NameErr(t, n) == [ok |-> FALSE, val |-> NoPin, tag |-> t, pin |-> NoPin, name |-> n]
PlainErr(t) == [ok |-> FALSE, val |-> NoPin, tag |-> t, pin |-> NoPin, name |-> ""]

InitError(ctx, r) == [context |-> ctx, tag |-> r.tag, pin |-> r.pin, name |-> r.name]

\* AnyPin::try_into_input / try_into_output / try_into_input_output:
\* whether the pad accepts the driver of that direction.
try_into(cap, p) ==
    IF cap = "input" THEN TRUE ELSE p \notin InputOnlyPins

\* ------------------------------------------------------------ GpioManager

\* GpioManager::new: every pin of the domain starts available.
GpioManagerNew == 0..LastPin

\* A take_convert that reads the slot without emptying it (`x.clone()` for `x.take()`).
take_convert_keep(ps, id, cap) ==
    IF id \in 0..LastPin
    THEN [pins |-> ps,
          res |-> IF try_into(cap, id) THEN Ok(id)
                  ELSE PinErr("PinInsufficientCapability", id)]
    ELSE [pins |-> ps, res |-> PinErr("PinUnknown", id)]

\* GpioManager::take_convert on the ledger ps: the ledger afterwards and the
\* result. The slot is emptied (x.take()) before the conversion is tried.
take_convert(ps, id, cap) ==
    IF id \in 0..LastPin
    THEN IF id \in ps
         THEN [pins |-> ps \ {id},
               res |-> IF try_into(cap, id) THEN Ok(id)
                       ELSE PinErr("PinInsufficientCapability", id)]
         ELSE [pins |-> ps, res |-> PinErr("PinAlreadyTaken", id)]
    ELSE [pins |-> ps, res |-> PinErr("PinUnknown", id)]

\* ------------------------------------------------------------- PwmManager

\* PwmManager::new: all eight channels present.
PwmManagerNew == 0..(NumPwmChannels - 1)

Min(S) == CHOOSE x \in S : \A y \in S : x <= y

\* A take that hands out the first channel without taking it out of its slot.
PwmTakeKeep(chs, drvOk) ==
    IF chs # {}
    THEN [channels |-> chs,
          res |-> IF drvOk THEN Ok(Min(chs)) ELSE PlainErr("EspError")]
    ELSE [channels |-> chs, res |-> PlainErr("PwmOutOfChannels")]

\* PwmManager::take: the first channel still present is taken out of its slot;
\* LedcDriver::new on it may fail (drvOk = FALSE), the channel is gone either way.
PwmTake(chs, drvOk) ==
    IF chs # {}
    THEN [channels |-> chs \ {Min(chs)},
          res |-> IF drvOk THEN Ok(Min(chs)) ELSE PlainErr("EspError")]
    ELSE [channels |-> chs, res |-> PlainErr("PwmOutOfChannels")]

\* pins.take_convert(gpio, try_into_output).and_then(|x| pwms.take(x))
TakePwmPin(ps, chs, gpio, drvOk) ==
    LET p == take_convert(ps, gpio, "output")
        c == PwmTake(chs, drvOk)
    IN  IF p.res.ok
        THEN [pins |-> p.pins, channels |-> c.channels, res |-> c.res]
        ELSE [pins |-> p.pins, channels |-> chs, res |-> p.res]

\* ------------------------------------------------------------ handle maps

EmptyMap == [n \in {} |-> 0]
Insert(m, k, v) == (k :> v) @@ [n \in DOMAIN m \ {k} |-> m[n]]
\* A name check that never finds the name.
contains_key_never(m, k) == FALSE
\* BTreeMap::contains_key
contains_key(m, k) == k \in DOMAIN m

Push(q, x) == Append(q, x)

\* `menu_content.push(menu_entries!(..))`, reached only past every `continue` of the
\* iteration, right after `res.insert`.
push_menu_always(content, r, name) == Push(content, name)
push_menu(content, r, name) == IF r.ok THEN Push(content, name) ELSE content

Entry(kind, name, gpios, members, r) ==
    [kind |-> kind, name |-> name, gpios |-> gpios, members |-> members,
     ok |-> r.ok, tag |-> r.tag, pin |-> r.pin, errname |-> r.name]

\* One more layout entry may be read.
MoreEntries == Len(log) < MaxEntries

\* ---------------------------------------------------------- bind_syscalls

BindRest == UNCHANGED <<callVars, schedVars, projVars, busVars>>

\* `i2c: None` in the layout: no pin is taken.
NoI2c ==
    /\ bpc = "i2c"
    /\ bpc' = "digital_ins"
    /\ UNCHANGED <<pins, pwmsSome, channels, errors, i2c, digital_ins, digital_outs,
                   motors, motor_groups, hcsr04s, i2c_devices, menu_content, syscalls, log>>
    /\ BindRest

\* `i2c: Some(..)`: sda, then scl, then I2cDriver::new (drvOk: whether it succeeds).
BindI2c(sda, scl, drvOk) ==
    /\ bpc = "i2c"
    /\ MoreEntries
    /\ LET a == take_convert(pins, sda, "input_output")
           b == take_convert(a.pins, scl, "input_output")
           r == IF ~a.res.ok THEN a.res
                ELSE IF ~b.res.ok THEN b.res
                ELSE IF ~drvOk THEN PlainErr("EspError")
                ELSE Ok(0)
           ctx == IF ~a.res.ok THEN <<"I2C", "", "gpio_sda">>
                  ELSE IF ~b.res.ok THEN <<"I2C", "", "gpio_scl">>
                  ELSE <<"I2C", "", "">>
       IN  /\ pins' = IF a.res.ok THEN b.pins ELSE a.pins
           /\ errors' = IF r.ok THEN errors ELSE Push(errors, InitError(ctx, r))
           /\ i2c' = IF r.ok THEN [some |-> TRUE, sda |-> sda, scl |-> scl] ELSE i2c
           /\ log' = Push(log, Entry("i2c", "", <<sda, scl>>, <<>>, r))
    /\ bpc' = "digital_ins"
    /\ UNCHANGED <<pwmsSome, channels, digital_ins, digital_outs, motors, motor_groups,
                   hcsr04s, i2c_devices, menu_content, syscalls>>
    /\ BindRest

\* One iteration of `for entry in peripherals_config.digital_ins`.
\* (PinDriver::input on a pin try_into_input has just driven as input succeeds.)
BindDigitalIn(e) ==
    /\ bpc = "digital_ins"
    /\ MoreEntries
    /\ LET t == take_convert(pins, e.gpio, "input")
           r == IF ~t.res.ok THEN t.res
                ELSE IF contains_key(digital_ins, e.name)
                     THEN NameErr("NameAlreadyTaken", e.name)
                ELSE Ok(0)
           ctx == <<"digital_ins", e.name, IF t.res.ok THEN "" ELSE "gpio">>
       IN  /\ pins' = t.pins
           /\ errors' = IF r.ok THEN errors ELSE Push(errors, InitError(ctx, r))
           /\ digital_ins' = IF r.ok
                THEN Insert(digital_ins, e.name, [pin |-> e.gpio, negated |-> e.negated])
                ELSE digital_ins
           /\ menu_content' = push_menu(menu_content, r, e.name)
           /\ log' = Push(log, Entry("digital_ins", e.name, <<e.gpio>>, <<>>, r))
    /\ UNCHANGED <<bpc, pwmsSome, channels, i2c, digital_outs, motors, motor_groups,
                   hcsr04s, i2c_devices, syscalls>>
    /\ BindRest

\* One iteration of `for entry in peripherals_config.digital_outs`.
BindDigitalOut(e) ==
    /\ bpc = "digital_outs"
    /\ MoreEntries
    /\ LET t == take_convert(pins, e.gpio, "output")
           r == IF ~t.res.ok THEN t.res
                ELSE IF contains_key(digital_outs, e.name)
                     THEN NameErr("NameAlreadyTaken", e.name)
                ELSE Ok(0)
           ctx == <<"digital_outs", e.name, IF t.res.ok THEN "" ELSE "gpio">>
       IN  /\ pins' = t.pins
           /\ errors' = IF r.ok THEN errors ELSE Push(errors, InitError(ctx, r))
           /\ digital_outs' = IF r.ok
                THEN Insert(digital_outs, e.name, [pin |-> e.gpio, negated |-> e.negated])
                ELSE digital_outs
           /\ menu_content' = push_menu(menu_content, r, e.name)
           /\ log' = Push(log, Entry("digital_outs", e.name, <<e.gpio>>, <<>>, r))
    /\ UNCHANGED <<bpc, pwmsSome, channels, i2c, digital_ins, motors, motor_groups,
                   hcsr04s, i2c_devices, syscalls>>
    /\ BindRest

\* One iteration of `for entry in peripherals_config.motors`; drvPos / drvNeg:
\* whether LedcDriver::new succeeds for the positive / negative leg.
BindMotorEntry(e, drvPos, drvNeg) ==
    /\ bpc = "motors"
    /\ LET a == TakePwmPin(pins, channels, e.gpio_pos, drvPos)
           b == TakePwmPin(a.pins, a.channels, e.gpio_neg, drvNeg)
           r == IF ~pwmsSome THEN PlainErr("PwmOutOfChannels")
                ELSE IF ~a.res.ok THEN a.res
                ELSE IF ~b.res.ok THEN b.res
                ELSE IF contains_key(motors, e.name)
                     THEN NameErr("NameAlreadyTaken", e.name)
                ELSE Ok(0)
           ctx == <<"motors", e.name,
                    IF ~pwmsSome THEN ""
                    ELSE IF ~a.res.ok THEN "gpio_pos"
                    ELSE IF ~b.res.ok THEN "gpio_neg" ELSE "">>
           motor == [positive |-> [pin |-> e.gpio_pos, channel |-> a.res.val],
                     negative |-> [pin |-> e.gpio_neg, channel |-> b.res.val]]
       IN  /\ pins' = IF ~pwmsSome THEN pins ELSE IF a.res.ok THEN b.pins ELSE a.pins
           /\ channels' = IF ~pwmsSome THEN channels
                          ELSE IF a.res.ok THEN b.channels ELSE a.channels
           /\ errors' = IF r.ok THEN errors ELSE Push(errors, InitError(ctx, r))
           /\ motors' = IF r.ok THEN Insert(motors, e.name, motor) ELSE motors
           /\ motor_groups' = IF r.ok THEN Insert(motor_groups, e.name, <<e.name>>)
                              ELSE motor_groups
           /\ menu_content' = push_menu(menu_content, r, e.name)
           /\ log' = Push(log, Entry("motors", e.name, <<e.gpio_pos, e.gpio_neg>>, <<>>, r))
    /\ UNCHANGED <<bpc, pwmsSome, i2c, digital_ins, digital_outs, hcsr04s, i2c_devices, syscalls>>
    /\ BindRest

\* The first member of a group that names no bound motor (0: every member is known).
FirstUnknown(members) ==
    IF \A i \in 1..Len(members) : contains_key(motors, members[i]) THEN 0
    ELSE Min({i \in 1..Len(members) : ~contains_key(motors, members[i])})

\* One iteration of `'group: for entry in peripherals_config.motor_groups`.
BindMotorGroup(e) ==
    /\ bpc = "motor_groups"
    /\ MoreEntries
    /\ LET u == FirstUnknown(e.motors)
           r == IF u # 0 THEN NameErr("NameUnknown", e.motors[u])
                ELSE IF contains_key(motor_groups, e.name)
                     THEN NameErr("NameAlreadyTaken", e.name)
                ELSE Ok(0)
       IN  /\ errors' = IF r.ok THEN errors
                        ELSE Push(errors, InitError(<<"motor_groups", e.name, "">>, r))
           /\ motor_groups' = IF r.ok THEN Insert(motor_groups, e.name, e.motors)
                              ELSE motor_groups
           /\ menu_content' = push_menu(menu_content, r, e.name)
           /\ log' = Push(log, Entry("motor_groups", e.name, <<>>, e.motors, r))
    /\ UNCHANGED <<bpc, pins, pwmsSome, channels, i2c, digital_ins, digital_outs, motors,
                   hcsr04s, i2c_devices, syscalls>>
    /\ BindRest

\* One iteration of `for entry in peripherals_config.hcsr04s`.
BindHcsr04(e) ==
    /\ bpc = "hcsr04s"
    /\ MoreEntries
    /\ LET a == take_convert(pins, e.gpio_trigger, "output")
           b == take_convert(a.pins, e.gpio_echo, "input")
           r == IF ~a.res.ok THEN a.res
                ELSE IF ~b.res.ok THEN b.res
                ELSE IF contains_key(hcsr04s, e.name)
                     THEN NameErr("NameAlreadyTaken", e.name)
                ELSE Ok(0)
           ctx == <<"hcsr04s", e.name,
                    IF ~a.res.ok THEN "gpio_trigger"
                    ELSE IF ~b.res.ok THEN "gpio_echo" ELSE "">>
       IN  /\ pins' = IF a.res.ok THEN b.pins ELSE a.pins
           /\ errors' = IF r.ok THEN errors ELSE Push(errors, InitError(ctx, r))
           /\ hcsr04s' = IF r.ok
                THEN Insert(hcsr04s, e.name, [trigger |-> e.gpio_trigger, echo |-> e.gpio_echo])
                ELSE hcsr04s
           /\ menu_content' = push_menu(menu_content, r, e.name)
           /\ log' = Push(log, Entry("hcsr04s", e.name, <<e.gpio_trigger, e.gpio_echo>>, <<>>, r))
    /\ UNCHANGED <<bpc, pwmsSome, channels, i2c, digital_ins, digital_outs, motors,
                   motor_groups, i2c_devices, syscalls>>
    /\ BindRest

I2cKinds == {"max30205s", "is31fl3741s", "bmp388s", "lis3dhs", "veml7700s"}

\* One iteration of the loop over an I2C device kind (max30205s, is31fl3741s, bmp388s,
\* lis3dhs, veml7700s): the bus handle is cloned, the driver is constructed and set up
\* (drvOk: whether the device answers), then the name is checked.
BindI2cDevice(e, drvOk) ==
    /\ bpc \in I2cKinds
    /\ MoreEntries
    /\ LET r == IF ~i2c.some THEN PlainErr("I2cNotConfigured")
                ELSE IF ~drvOk THEN PlainErr("I2cError")
                ELSE IF contains_key(i2c_devices[bpc], e.name)
                     THEN NameErr("NameAlreadyTaken", e.name)
                ELSE Ok(0)
       IN  /\ errors' = IF r.ok THEN errors
                        ELSE Push(errors, InitError(<<bpc, e.name, "">>, r))
           /\ i2c_devices' = IF r.ok
                THEN [i2c_devices EXCEPT ![bpc] = Insert(@, e.name, [i2c_addr |-> e.i2c_addr])]
                ELSE i2c_devices
           /\ menu_content' = push_menu(menu_content, r, e.name)
           /\ log' = Push(log, Entry(bpc, e.name, <<>>, <<>>, r))
    /\ UNCHANGED <<bpc, pins, pwmsSome, channels, i2c, digital_ins, digital_outs, motors,
                   motor_groups, hcsr04s, syscalls>>
    /\ BindRest

\* The kind whose loop follows, and the submenu label pushed when a loop ends
\* ("" when the loop pushes none: motors and motor_groups share one submenu).
NextKindSwapped(k) ==
    CASE k = "digital_ins" -> "digital_outs"
      [] k = "digital_outs" -> "hcsr04s"
      [] k = "hcsr04s" -> "motors"
      [] k = "motors" -> "motor_groups"
      [] k = "motor_groups" -> "max30205s"
      [] k = "max30205s" -> "is31fl3741s"
      [] k = "is31fl3741s" -> "bmp388s"
      [] k = "bmp388s" -> "lis3dhs"
      [] k = "lis3dhs" -> "veml7700s"
      [] k = "veml7700s" -> "done"
NextKindOf(k) ==
    CASE k = "digital_ins" -> "digital_outs"
      [] k = "digital_outs" -> "motors"
      [] k = "motors" -> "motor_groups"
      [] k = "motor_groups" -> "hcsr04s"
      [] k = "hcsr04s" -> "max30205s"
      [] k = "max30205s" -> "is31fl3741s"
      [] k = "is31fl3741s" -> "bmp388s"
      [] k = "bmp388s" -> "lis3dhs"
      [] k = "lis3dhs" -> "veml7700s"
      [] k = "veml7700s" -> "done"
LabelOf(k) ==
    CASE k = "digital_ins" -> "DigitalIn"
      [] k = "digital_outs" -> "DigitalOut"
      [] k = "motors" -> ""
      [] k = "motor_groups" -> "Motor"
      [] k = "hcsr04s" -> "HCSR04"
      [] k = "max30205s" -> "MAX30205"
      [] k = "is31fl3741s" -> "IS31FL3741"
      [] k = "bmp388s" -> "BMP388"
      [] k = "lis3dhs" -> "LIS3DH"
      [] k = "veml7700s" -> "VEML7700"

\* A kind's list is exhausted: `if !menu_content.is_empty() { syscalls.push(..) }`.
EndKind ==
    /\ bpc \notin {"i2c", "done"}
    /\ bpc' = NextKindOf(bpc)
    /\ IF LabelOf(bpc) = ""
       THEN UNCHANGED <<menu_content, syscalls>>
       ELSE /\ menu_content' = <<>>
            /\ syscalls' = IF menu_content # <<>>
                           THEN Push(syscalls, [label |-> LabelOf(bpc), content |-> menu_content])
                           ELSE syscalls
    /\ UNCHANGED <<pins, pwmsSome, channels, errors, i2c, digital_ins, digital_outs,
                   motors, motor_groups, hcsr04s, i2c_devices, log>>
    /\ BindRest

\* ------------------------------------------------- bind: layouts and specs

\* (bind only stores `negated`; both values are exercised by SpecDispatch.)
DigitalIOEntries == [name : Names, gpio : PinChoices, negated : {FALSE}]
MotorEntries == [name : Names, gpio_pos : PinChoices, gpio_neg : PinChoices]
GroupMembers == {<<>>} \cup {<<m>> : m \in Names} \cup {<<m, n>> : m, n \in Names}
MotorGroupEntries == [name : Names, motors : GroupMembers]
Hcsr04Entries == [name : Names, gpio_trigger : PinChoices, gpio_echo : PinChoices]
I2cAddrs == {24}
BasicI2cEntries == [name : Names, i2c_addr : I2cAddrs]

\* The state bind_syscalls starts its loops in (platform.rs:382-392); PwmManager::new
\* may fail, which leaves pwms = None and one "PWM" error.
InitBind ==
    /\ bpc = "i2c"
    /\ pins = GpioManagerNew
    /\ pwmsSome \in BOOLEAN
    /\ channels = IF pwmsSome THEN PwmManagerNew ELSE {}
    /\ errors = IF pwmsSome THEN <<>>
                ELSE <<InitError(<<"PWM", "", "">>, PlainErr("EspError"))>>
    /\ i2c = [some |-> FALSE, sda |-> NoPin, scl |-> NoPin]
    /\ digital_ins = EmptyMap
    /\ digital_outs = EmptyMap
    /\ motors = EmptyMap
    /\ motor_groups = EmptyMap
    /\ hcsr04s = EmptyMap
    /\ i2c_devices = [k \in I2cKinds |-> EmptyMap]
    /\ menu_content = <<>>
    /\ syscalls = <<>>
    /\ log = <<>>

\* A motor entry of a mixed layout (LedcDriver::new succeeds; SpecPwm covers its failure).
BindMotor ==
    /\ MoreEntries
    /\ \E e \in MotorEntries : BindMotorEntry(e, TRUE, TRUE)

NextBind ==
    \/ NoI2c
    \/ \E sda \in PinChoices, scl \in PinChoices : BindI2c(sda, scl, TRUE)
    \/ \E e \in DigitalIOEntries : BindDigitalIn(e)
    \/ \E e \in DigitalIOEntries : BindDigitalOut(e)
    \/ BindMotor
    \/ \E e \in MotorGroupEntries : BindMotorGroup(e)
    \/ \E e \in Hcsr04Entries : BindHcsr04(e)
    \/ \E e \in BasicI2cEntries, drvOk \in BOOLEAN : BindI2cDevice(e, drvOk)
    \/ EndKind

\* ------------------------------------------------------- idle components

\* No request is being handled.
IdleCall ==
    [pc |-> "idle", type |-> "", name |-> <<>>, args |-> <<>>, status |-> "",
     completions |-> 0, reply |-> <<>>, idx |-> 0, leg |-> 0, before |-> <<>>]

InitCallIdle ==
    /\ duty = EmptyMap
    /\ level = EmptyMap
    /\ pixel = <<>>
    /\ call = IdleCall

InitSchedOff ==
    /\ commands = <<>>
    /\ inflight = {}
    /\ running = TRUE
    /\ spc = "off"
    /\ command = <<>>
    /\ enqueued = <<>>
    /\ applied = <<>>
    /\ nextId = 0


\* No scheduler runs: nothing is compiled, stored or printed.
InitProjOff ==
    /\ running_env = ""
    /\ env_inputs = <<>>
    /\ project = <<>>
    /\ output = <<>>
    /\ runtime_errors = <<>>
    /\ pulls = [output |-> <<>>, errors |-> <<>>, last |-> <<>>, prev |-> 0, upto |-> 0]
    /\ nextLine = 0

\* The storage keys of the wifi credentials (storage.rs:88-92).
WifiKeys == {"wapssid", "wappass", "wclssid", "wclpass"}
\* The keys the handlers of lib.rs write besides `proj`: the wifi entries, `periph`
\* (lib.rs:261) and the entry behind netsblox_server() (lib.rs:422, 533), for which
\* impl_storage_entry! lists no key.
NvsKeys == WifiKeys \cup {"periph", "netsblox_server"}

\* No measurement of an HCSR04 is under way. Instants are in milliseconds.
IdlePulse ==
    [pos |-> "idle", now |-> 0, total_start |-> 0, pulse_start |-> 0,
     rise |-> 0, fall |-> 0, res |-> [tag |-> "none", val |-> 0]]

\* A field of a frame's JSON object: absent, present with a string, or present with a
\* value of another JSON type. Request ids are numbers here (the n-th uuid is n).
NoField == [has |-> FALSE, str |-> FALSE, text |-> "", id |-> 0]
OtherField == [has |-> TRUE, str |-> FALSE, text |-> "", id |-> 0]
StringField(text) == [has |-> TRUE, str |-> TRUE, text |-> text, id |-> 0]
IdField(id) == [has |-> TRUE, str |-> TRUE, text |-> "", id |-> id]
\* No frame has reached ws_on_msg.
NoFrame ==
    [n |-> 0,
     frame |-> [msgType |-> NoField, content |-> "absent", body |-> NoField,
                requestId |-> NoField, srcId |-> NoField],
     queued |-> FALSE]

\* No message is sent and no request reaches /wifi.
InitBusOff ==
    /\ message_replies = <<>>
    /\ clock = 0
    /\ waiting = {}
    /\ reply_op = [op |-> "none", key |-> 0, now |-> 0, result |-> [tag |-> "none", value |-> <<>>]]
    /\ nvs = [k \in NvsKeys |-> <<>>]
    /\ wifi_op = [route |-> "", body |-> [kind |-> "", ssid |-> <<>>, pass |-> <<>>],
                  status |-> 0, nvsOk |-> TRUE]
    /\ batch_i = 0
    /\ steps_since_gc = 0
    /\ step_res = "none"
    /\ msg_out = <<>>
    /\ ws_chan = <<>>
    /\ shaping = <<>>
    /\ sending = <<>>
    /\ wire = <<>>
    /\ sent = <<>>
    /\ pulse = IdlePulse
    /\ msg_in = <<>>
    /\ ws_frame = NoFrame

SpecBindInit == InitBind /\ InitCallIdle /\ InitSchedOff /\ InitProjOff /\ InitBusOff
SpecBind == SpecBindInit /\ [][NextBind]_vars

\* --------------------------------------------- bind: motor-only layouts

\* The k-th motor entry of a motor-only layout has a name of its own and names
\* two fresh pins, the number of no pin, or the same pin twice.
PwmNames == <<"m1", "m2", "m3", "m4", "m5", "m6", "m7", "m8">>
PwmMotorEntries(k) ==
    [name : {PwmNames[k + 1]}, gpio_pos : {2 * k, LastPin + 1}, gpio_neg : {2 * k + 1, 2 * k}]

\* bind_syscalls at the motors loop of a layout with no i2c, digital_ins, digital_outs.
InitPwm ==
    /\ bpc = "motors"
    /\ pins = GpioManagerNew
    /\ pwmsSome \in BOOLEAN
    /\ channels = IF pwmsSome THEN PwmManagerNew ELSE {}
    /\ errors = IF pwmsSome THEN <<>>
                ELSE <<InitError(<<"PWM", "", "">>, PlainErr("EspError"))>>
    /\ i2c = [some |-> FALSE, sda |-> NoPin, scl |-> NoPin]
    /\ digital_ins = EmptyMap
    /\ digital_outs = EmptyMap
    /\ motors = EmptyMap
    /\ motor_groups = EmptyMap
    /\ hcsr04s = EmptyMap
    /\ i2c_devices = [k \in I2cKinds |-> EmptyMap]
    /\ menu_content = <<>>
    /\ syscalls = <<>>
    /\ log = <<>>

BindPwmMotor ==
    /\ Len(log) < MaxMotorEntries
    /\ \E e \in PwmMotorEntries(Len(log)), drvPos \in BOOLEAN, drvNeg \in BOOLEAN :
          BindMotorEntry(e, drvPos, drvNeg)

NextPwm ==
    \/ BindPwmMotor
    \/ EndKind

SpecPwmInit == InitPwm /\ InitCallIdle /\ InitSchedOff /\ InitProjOff /\ InitBusOff
SpecPwm == SpecPwmInit /\ [][NextPwm]_vars

\* ------------------------------------------------------------------------
\* The syscall request handler (platform.rs:776-969)
\* ------------------------------------------------------------------------

\* Argument values. Numbers are kept in halves (h = 2 * value), so that a
\* non-integer argument (h odd) is representable; strings are non-numeric.
BoolV(b) == [t |-> "bool", b |-> b, h |-> 0, s |-> ""]
NumV(h) == [t |-> "num", b |-> FALSE, h |-> h, s |-> ""]
StrV(x) == [t |-> "str", b |-> FALSE, h |-> 0, s |-> x]
\* HCSR04's distance: the pulse in microseconds times 0.01715, kept as us * 1715 (1e-5 cm).
CmV(us) == [t |-> "cm", b |-> FALSE, h |-> us * 1715, s |-> ""]
\* LIS3DH's reading: a list of three numbers.
ListV(h) == [t |-> "list", b |-> FALSE, h |-> h, s |-> ""]

Msg(text, kind, peripheral, function, a, b) ==
    [text |-> text, kind |-> kind, peripheral |-> peripheral, function |-> function,
     a |-> a, b |-> b]

ReplyOk(v) == [ok |-> TRUE, val |-> v, err |-> <<>>]
ReplyErr(m) == [ok |-> FALSE, val |-> <<>>, err |-> m]

\* What one run of the handler produces: the returned RequestStatus ("Panic" when an
\* unwrap aborts it, "" while Motor.setPower is still writing), the number of
\* key.complete calls, the completion, and the device state it leaves.
Out(status, completions, reply) ==
    [status |-> status, completions |-> completions, reply |-> reply,
     level |-> level, pixel |-> pixel, writes |-> FALSE]

\* key.complete(reply) on the way out o
key_complete(o, reply) == [o EXCEPT !.completions = @ + 1, !.reply = reply]
\* The handler entered, nothing done yet.
Entered == Out("", 0, <<>>)

\* key.complete(reply) followed by `RequestStatus::Handled`
Handled(reply) == [key_complete(Entered, reply) EXCEPT !.status = "Handled"]
\* `return RequestStatus::UseDefault { key, request }`
UseDefault == [Entered EXCEPT !.status = "UseDefault"]
\* An `.unwrap()` on an Err: the handler does not return.
Panic == [Entered EXCEPT !.status = "Panic"]

\* An unknown! that returns without completing the key.
unknown_silent(n) == [Entered EXCEPT !.status = "Handled"]
\* An unknown!(peripheral) that reports the function instead.
unknown_swapped(n) ==
    Handled(ReplyErr(Msg("unknown {} function: {:?}", n[1], "", n[3], 0, 0)))

\* unknown!($id): key.complete(Err("unknown {peripheral_type} $id: {$id:?}"))
unknown_peripheral(n) ==
    Handled(ReplyErr(Msg("unknown {} peripheral: {:?}", n[1], n[2], "", 0, 0)))
unknown_function(n) ==
    Handled(ReplyErr(Msg("unknown {} function: {:?}", n[1], "", n[3], 0, 0)))
\* ok!(): key.complete(Ok("OK"))
ok == Handled(ReplyOk(StrV("OK")))

\* Value::as_bool / Value::as_number, and the u8 coercion `raw as u8 as f64 == raw`.
IsU8(v) == v.t = "num" /\ v.h % 2 = 0 /\ v.h >= 0 /\ v.h <= 2 * 255
ArgOk(ty, v) ==
    CASE ty = "bool" -> v.t = "bool"
      [] ty = "f64" -> v.t = "num"
      [] ty = "u8" -> IsU8(v)

ArgErrText(ty, v) ==
    IF ty = "bool" THEN "{}.{}.{} expected a bool for arg {}, but got {:?}"
    ELSE IF v.t # "num" THEN "{}.{}.{} expected a number for arg {}, but got {:?}"
    ELSE "{}.{}.{} expected an integer in [0, 255] for arg {}, but got {}"

\* parse_args!: the arity is checked first, then the arguments in order; the first
\* one that does not convert completes the key. 0: every argument converts.
FirstBadArgHead(args, types) ==
    IF Len(types) = 0 \/ ArgOk(types[1], args[1]) THEN 0 ELSE 1
FirstBadArg(args, types) ==
    IF \A i \in 1..Len(types) : ArgOk(types[i], args[i]) THEN 0
    ELSE Min({i \in 1..Len(types) : ~ArgOk(types[i], args[i])})

parse_args(n, args, types) ==
    IF Len(args) # Len(types)
    THEN [ok |-> FALSE,
          out |-> Handled(ReplyErr(Msg("{}.{}.{} expected {} args, but got {}",
                                       n[1], n[2], n[3], Len(types), Len(args))))]
    ELSE LET i == FirstBadArg(args, types)
         IN  IF i # 0
             THEN [ok |-> FALSE,
                   out |-> Handled(ReplyErr(Msg(ArgErrText(types[i], args[i]),
                                                n[1], n[2], n[3], i, 0)))]
             ELSE [ok |-> TRUE, out |-> <<>>]

\* DigitalInController::get_value
get_value(handle, high) == (high # handle.negated)
\* DigitalOutController::set_value: the level handed to set_level
set_value_raw(handle, value) == IF value THEN "High" ELSE "Low"
set_value(handle, value) == IF value # handle.negated THEN "High" ELSE "Low"

\* "DigitalIn" arm
DispatchDigitalIn(n, args, env) ==
    IF ~contains_key(digital_ins, n[2]) THEN unknown_peripheral(n)
    ELSE IF n[3] # "get" THEN unknown_function(n)
    ELSE LET p == parse_args(n, args, <<>>)
         IN  IF ~p.ok THEN p.out
             ELSE Handled(ReplyOk(BoolV(get_value(digital_ins[n[2]], env.high))))

\* "DigitalOut" arm: handle.set_value(value).unwrap(); ok!()
DispatchDigitalOut(n, args, env) ==
    IF ~contains_key(digital_outs, n[2]) THEN unknown_peripheral(n)
    ELSE IF n[3] # "set" THEN unknown_function(n)
    ELSE LET p == parse_args(n, args, <<"bool">>)
         IN  IF ~p.ok THEN p.out
             ELSE IF ~env.hwOk THEN Panic
             ELSE [ok EXCEPT !.level =
                      [level EXCEPT ![n[2]] = set_value(digital_outs[n[2]], args[1].b)]]

\* "Motor" arm up to the loop over the group: the writes follow one by one.
DispatchMotor(n, args, env) ==
    IF ~contains_key(motor_groups, n[2]) THEN unknown_peripheral(n)
    ELSE IF n[3] # "setPower" THEN unknown_function(n)
    ELSE LET p == parse_args(n, args, [i \in 1..Len(motor_groups[n[2]]) |-> "f64"])
         IN  IF ~p.ok THEN p.out
             ELSE IF Len(motor_groups[n[2]]) = 0 THEN ok
             ELSE [Entered EXCEPT !.writes = TRUE]

\* "HCSR04" arm: get_distance fails when the trigger pin cannot be driven; a pulse that
\* does not end within the timeout reads as 0 (env.reading = 0).
DispatchHcsr04(n, args, env) ==
    IF ~contains_key(hcsr04s, n[2]) THEN unknown_peripheral(n)
    ELSE IF n[3] # "getDistance" THEN unknown_function(n)
    ELSE LET p == parse_args(n, args, <<>>)
         IN  IF ~p.ok THEN p.out
             ELSE IF ~env.hwOk THEN Panic
             ELSE Handled(ReplyOk(CmV(env.reading)))

\* "IS31FL3741" arm
DispatchIs31fl3741(n, args, env) ==
    IF ~contains_key(i2c_devices["is31fl3741s"], n[2]) THEN unknown_peripheral(n)
    ELSE IF n[3] # "setPixel" THEN unknown_function(n)
    ELSE LET p == parse_args(n, args, <<"u8", "u8", "u8", "u8", "u8">>)
             x == args[1].h \div 2
             y == args[2].h \div 2
         IN  IF ~p.ok THEN p.out
             ELSE IF x >= 13 \/ y >= 9
                  THEN Handled(ReplyErr(Msg("pixel position ({}, {}) is out of bounds",
                                            n[1], n[2], n[3], x, y)))
             ELSE IF ~env.hwOk THEN Panic
             ELSE [ok EXCEPT !.pixel = <<x, y, args[3].h \div 2, args[4].h \div 2,
                                         args[5].h \div 2>>]

\* The sensor kinds read over I2C, each with the operations it offers.
SensorKind(k) ==
    CASE k = "MAX30205" -> "max30205s"
      [] k = "BMP388" -> "bmp388s"
      [] k = "LIS3DH" -> "lis3dhs"
      [] k = "VEML7700" -> "veml7700s"
SensorOps(k) ==
    CASE k = "MAX30205" -> {"getTemperature"}
      [] k = "BMP388" -> {"getPressure", "getTemperature"}
      [] k = "LIS3DH" -> {"getAcceleration"}
      [] k = "VEML7700" -> {"getLight"}

\* "MAX30205" / "BMP388" / "LIS3DH" / "VEML7700" arms: the read is unwrapped.
DispatchSensor(n, args, env) ==
    IF ~contains_key(i2c_devices[SensorKind(n[1])], n[2]) THEN unknown_peripheral(n)
    ELSE IF n[3] \notin SensorOps(n[1]) THEN unknown_function(n)
    ELSE LET p == parse_args(n, args, <<>>)
         IN  IF ~p.ok THEN p.out
             ELSE IF ~env.hwOk THEN Panic
             ELSE IF n[1] = "LIS3DH" THEN Handled(ReplyOk(ListV(env.reading)))
             ELSE Handled(ReplyOk(NumV(env.reading)))

\* The request closure: `name.split('.')` must give exactly three tokens, then the
\* match on peripheral_type; anything else is left to the next handler.
Handler(req, env) ==
    IF req.type # "Syscall" THEN UseDefault
    ELSE IF Len(req.name) # 3 THEN UseDefault
    ELSE CASE req.name[1] = "DigitalIn" -> DispatchDigitalIn(req.name, req.args, env)
           [] req.name[1] = "DigitalOut" -> DispatchDigitalOut(req.name, req.args, env)
           [] req.name[1] = "Motor" -> DispatchMotor(req.name, req.args, env)
           [] req.name[1] = "HCSR04" -> DispatchHcsr04(req.name, req.args, env)
           [] req.name[1] = "IS31FL3741" -> DispatchIs31fl3741(req.name, req.args, env)
           [] req.name[1] \in {"MAX30205", "BMP388", "LIS3DH", "VEML7700"} ->
                DispatchSensor(req.name, req.args, env)
           [] OTHER -> UseDefault

\* ---------------------------------------------------- MotorController

\* Resolution::Bits10: get_max_duty() is 2^10 - 1.
MaxDuty == 1023
\* The `max_input` of set_power.
MaxInput == 255

\* `x as i32` of a number kept in halves, and i32 division: both truncate toward zero.
AsI32(h) == IF h >= 0 THEN h \div 2 ELSE 0 - ((0 - h) \div 2)
TruncDiv(a, b) == IF a >= 0 THEN a \div b ELSE 0 - ((0 - a) \div b)
clamp_none(x, lo, hi) == x
Clamp(x, lo, hi) == IF x < lo THEN lo ELSE IF x > hi THEN hi ELSE x

\* set_power's `duty`
Duty(power) == TruncDiv(Clamp(AsI32(power.h), 0 - MaxInput, MaxInput) * MaxDuty, MaxInput)

\* The leg and value of set_power's first and second set_duty.
FirstWrite(d) == IF d >= 0 THEN [leg |-> "negative", value |-> 0]
                 ELSE [leg |-> "positive", value |-> 0]
SecondWrite(d) == IF d >= 0 THEN [leg |-> "positive", value |-> d]
                  ELSE [leg |-> "negative", value |-> 0 - d]
\* A set_power that sets the active leg before it zeroes the other.
WriteOfActiveFirst(d, leg) == IF leg = 1 THEN SecondWrite(d) ELSE FirstWrite(d)
WriteOf(d, leg) == IF leg = 1 THEN FirstWrite(d) ELSE SecondWrite(d)

\* LedcDriver::set_duty on one leg of motor m.
set_duty(dt, m, w) ==
    [dt EXCEPT ![m] = IF w.leg = "positive" THEN [@ EXCEPT !.positive = w.value]
                      ELSE [@ EXCEPT !.negative = w.value]]

\* ------------------------------------------------- requests of a process

Kinds == {"DigitalIn", "DigitalOut", "Motor", "HCSR04", "MAX30205", "IS31FL3741",
          "BMP388", "LIS3DH", "VEML7700"}
\* The operations the dispatcher matches for a kind.
OpsOf(k) ==
    CASE k = "DigitalIn" -> {"get"}
      [] k = "DigitalOut" -> {"set"}
      [] k = "Motor" -> {"setPower"}
      [] k = "HCSR04" -> {"getDistance"}
      [] k = "IS31FL3741" -> {"setPixel"}
      [] k \in {"MAX30205", "BMP388", "LIS3DH", "VEML7700"} -> SensorOps(k)
      [] OTHER -> {}

\* Requests a guest program may issue. Names: three tokens over the kinds and one
\* kind the dispatcher does not know ("Servo"), a bound peripheral ("a", the group
\* "g") or an unbound one ("x"), an operation of the kind or one it lacks ("nope");
\* names of two and of four tokens; and one request that is no syscall.
RequestKinds == Kinds \cup {"Servo"}
PeripheralsOf(k) == IF k = "Motor" THEN {"a", "g", "x"} ELSE {"a", "x"}
RequestNames ==
    UNION {{<<k, p, f>> : p \in PeripheralsOf(k), f \in OpsOf(k) \cup {"nope"}} :
             k \in RequestKinds}
    \cup {<<"DigitalIn", "a">>, <<"DigitalIn", "a", "get", "now">>}

\* Argument lists: 256 = 128.0, -128 = -64.0, 700 = 350.0, 1 = 0.5.
PowerValues == {NumV(256), NumV(0 - 128), StrV("fast")}
Values == {BoolV(TRUE), BoolV(FALSE), NumV(1), NumV(700)} \cup PowerValues
PixelArgs ==
    {<<NumV(2 * x), NumV(2 * y), NumV(2), NumV(4), c>> :
        x \in {0, 13}, y \in {0, 9}, c \in {NumV(6), NumV(1), NumV(512), BoolV(TRUE)}}
ArgListsOf(k) ==
    CASE k = "Motor" -> {<<>>} \cup {<<v>> : v \in Values}
                        \cup {<<v, w>> : v, w \in PowerValues}
      [] k = "DigitalOut" -> {<<>>} \cup {<<v>> : v \in Values}
      [] k = "IS31FL3741" -> {<<>>} \cup PixelArgs
      [] OTHER -> {<<>>, <<NumV(256)>>}
Requests ==
    {[type |-> "Syscall", name |-> n, args |-> a] :
        n \in RequestNames, a \in UNION {ArgListsOf(k) : k \in RequestKinds}}
RequestsOfShape ==
    {r \in Requests : r.args \in ArgListsOf(r.name[1])}
    \cup {[type |-> "Rpc", name |-> <<"DigitalIn", "a", "get">>, args |-> <<>>]}

\* What the hardware does during one request: whether the driver call succeeds, the
\* level of the input pin, the sensor reading (HCSR04: pulse in us, 0 on timeout).
\* A handler path depends on at most one of the three.
Envs ==
    {[hwOk |-> FALSE, high |-> FALSE, reading |-> 0],
     [hwOk |-> TRUE, high |-> FALSE, reading |-> 0],
     [hwOk |-> TRUE, high |-> TRUE, reading |-> 580]}

\* ------------------------------------------- the handler, step by step

DispatchRest == UNCHANGED <<bindVars, schedVars, projVars, busVars>>

\* EspSystem::perform_request: a process issues a request and the handler runs on it.
\* The handler runs to its return (or to the unwrap that aborts it), except that the
\* set_duty writes of Motor.setPower are taken one at a time.
Syscall(req, env) ==
    /\ bpc = "done"
    /\ call.pc = "idle"
    /\ LET o == Handler(req, env)
           first == motor_groups[req.name[2]][1]
       IN  /\ level' = o.level
           /\ pixel' = o.pixel
           /\ call' = [pc |-> IF o.writes THEN "setPower"
                              ELSE IF o.status = "Panic" THEN "panicked" ELSE "returned",
                       type |-> req.type, name |-> req.name, args |-> req.args,
                       status |-> o.status, completions |-> o.completions,
                       reply |-> o.reply,
                       idx |-> IF o.writes THEN 1 ELSE 0,
                       leg |-> IF o.writes THEN 1 ELSE 0,
                       before |-> IF o.writes THEN duty[first] ELSE <<>>]
    /\ UNCHANGED duty
    /\ DispatchRest

\* The i-th pair of `iter::zip(handle, powers)`.
zip_crossed(group, powers, i) == [motor |-> group[i], power |-> powers[Len(powers) + 1 - i]]
zip(group, powers, i) == [motor |-> group[i], power |-> powers[i]]

\* One set_duty of `motor.borrow_mut().set_power(power).unwrap()` inside the loop over
\* the group. hwOk: whether the driver call succeeds; took: whether a failed call
\* changed the duty all the same. The Err is unwrapped; after the last
\* motor's second write comes ok!().
MotorWrite(hwOk, took) ==
    /\ call.pc = "setPower"
    /\ LET group == motor_groups[call.name[2]]
           pair == zip(group, call.args, call.idx)
           m == pair.motor
           w == WriteOf(Duty(pair.power), call.leg)
           written == set_duty(duty, m, w)
           last == call.idx = Len(group)
       IN  IF ~hwOk
           THEN /\ duty' = IF took THEN written ELSE duty
                /\ call' = [call EXCEPT !.pc = "panicked", !.status = "Panic"]
           ELSE /\ ~took
                /\ duty' = written
                /\ call' =
                     IF call.leg = 1 THEN [call EXCEPT !.leg = 2]
                     ELSE IF ~last
                          THEN [call EXCEPT !.idx = @ + 1, !.leg = 1,
                                            !.before = written[group[call.idx + 1]]]
                     ELSE [key_complete(call, ReplyOk(StrV("OK")))
                             EXCEPT !.pc = "returned", !.status = "Handled"]
    /\ UNCHANGED <<level, pixel>>
    /\ DispatchRest

\* The handler has returned: perform_request keeps the key (Handled) or reports
\* NotSupported (UseDefault); the process polls the key and goes on.
PollRequest ==
    /\ call.pc = "returned"
    /\ call' = IdleCall
    /\ UNCHANGED <<duty, level, pixel>>
    /\ DispatchRest

NextDispatch ==
    \/ \E req \in RequestsOfShape, env \in Envs : Syscall(req, env)
    \/ \E hwOk \in BOOLEAN, took \in BOOLEAN : MotorWrite(hwOk, took)
    \/ PollRequest

\* ------------------------------------------------- bound device sets

\* bind_syscalls has returned on the empty layout.
InitEmptyLayout ==
    /\ bpc = "done"
    /\ pins = GpioManagerNew
    /\ pwmsSome = TRUE
    /\ channels = PwmManagerNew
    /\ errors = <<>>
    /\ i2c = [some |-> FALSE, sda |-> NoPin, scl |-> NoPin]
    /\ digital_ins = EmptyMap
    /\ digital_outs = EmptyMap
    /\ motors = EmptyMap
    /\ motor_groups = EmptyMap
    /\ hcsr04s = EmptyMap
    /\ i2c_devices = [k \in I2cKinds |-> EmptyMap]
    /\ menu_content = <<>>
    /\ syscalls = <<>>
    /\ log = <<>>
    /\ duty = EmptyMap
    /\ level = EmptyMap

\* bind_syscalls has returned on a layout with one device of every kind, two motors
\* and a group of both: i2c on pins 10/11, digital in `a` on 0, digital out `a` on 1,
\* motors `a` on 4/5 and `g1` on 6/7, group `g` of both, HCSR04 `a` on 8/9, and a
\* device `a` of each I2C kind.
BoardLog ==
    <<Entry("i2c", "", <<10, 11>>, <<>>, Ok(0)),
      Entry("digital_ins", "a", <<0>>, <<>>, Ok(0)),
      Entry("digital_outs", "a", <<1>>, <<>>, Ok(0)),
      Entry("motors", "a", <<4, 5>>, <<>>, Ok(0)),
      Entry("motors", "g1", <<6, 7>>, <<>>, Ok(0)),
      Entry("motor_groups", "g", <<>>, <<"a", "g1">>, Ok(0)),
      Entry("hcsr04s", "a", <<8, 9>>, <<>>, Ok(0)),
      Entry("max30205s", "a", <<>>, <<>>, Ok(0)),
      Entry("is31fl3741s", "a", <<>>, <<>>, Ok(0)),
      Entry("bmp388s", "a", <<>>, <<>>, Ok(0)),
      Entry("lis3dhs", "a", <<>>, <<>>, Ok(0)),
      Entry("veml7700s", "a", <<>>, <<>>, Ok(0))>>
BoardMenu ==
    <<[label |-> "DigitalIn", content |-> <<"a">>],
      [label |-> "DigitalOut", content |-> <<"a">>],
      [label |-> "Motor", content |-> <<"a", "g1", "g">>],
      [label |-> "HCSR04", content |-> <<"a">>],
      [label |-> "MAX30205", content |-> <<"a">>],
      [label |-> "IS31FL3741", content |-> <<"a">>],
      [label |-> "BMP388", content |-> <<"a">>],
      [label |-> "LIS3DH", content |-> <<"a">>],
      [label |-> "VEML7700", content |-> <<"a">>]>>
InitBoard ==
    /\ bpc = "done"
    /\ pins = GpioManagerNew \ {0, 1, 4, 5, 6, 7, 8, 9, 10, 11}
    /\ pwmsSome = TRUE
    /\ channels = PwmManagerNew \ {0, 1, 2, 3}
    /\ errors = <<>>
    /\ i2c = [some |-> TRUE, sda |-> 10, scl |-> 11]
    /\ \E negated \in BOOLEAN :
          /\ digital_ins = Insert(EmptyMap, "a", [pin |-> 0, negated |-> negated])
          /\ digital_outs = Insert(EmptyMap, "a", [pin |-> 1, negated |-> negated])
    /\ motors = Insert(Insert(EmptyMap, "a",
                    [positive |-> [pin |-> 4, channel |-> 0],
                     negative |-> [pin |-> 5, channel |-> 1]]), "g1",
                    [positive |-> [pin |-> 6, channel |-> 2],
                     negative |-> [pin |-> 7, channel |-> 3]])
    /\ motor_groups = Insert(Insert(Insert(EmptyMap, "a", <<"a">>), "g1", <<"g1">>),
                             "g", <<"a", "g1">>)
    /\ hcsr04s = Insert(EmptyMap, "a", [trigger |-> 8, echo |-> 9])
    /\ i2c_devices = [k \in I2cKinds |-> Insert(EmptyMap, "a", [i2c_addr |-> 24])]
    /\ menu_content = <<>>
    /\ syscalls = BoardMenu
    /\ log = BoardLog
    \* LedcDriver::new starts a channel at duty 0; an output pad starts low.
    /\ duty = [m \in {"a", "g1"} |-> [positive |-> 0, negative |-> 0]]
    /\ level = [n \in {"a"} |-> "Low"]

InitDispatch ==
    /\ InitEmptyLayout \/ InitBoard
    /\ pixel = <<>>
    /\ call = IdleCall

SpecDispatchInit == InitDispatch /\ InitSchedOff /\ InitProjOff /\ InitBusOff
SpecDispatch == SpecDispatchInit /\ [][NextDispatch]_vars

\* ------------------------------------------------------------------------
\* The scheduler loop and the HTTP handlers that feed it (lib.rs)
\* ------------------------------------------------------------------------

\* Handler calls made during one run.
MaxCommands == 3

SchedRest == UNCHANGED <<bindVars, callVars, busVars>>
\* The HTTP server answers: Executor::run has mounted the routes and has not aborted.
Serving == spc \notin {"off", "panicked"}
\* A step that touches the command queue or the flag only.
QueueRest == SchedRest /\ UNCHANGED projVars

\* ServerCommand::Input(input) / ServerCommand::SetProject(xml); id tells the calls apart.
InputCommand(id, input) == [id |-> id, cmd |-> "Input", arg |-> input]
SetProjectCommand(id, xml) == [id |-> id, cmd |-> "SetProject", arg |-> xml]

\* Request bodies: /input takes "start" or "stop"; POST /project takes any UTF-8 text
\* (a project that opens, one that does not); "\\xff" stands for bytes that are no UTF-8.
InputBodies == {"start", "stop", "go", "\\xff"}
ProjectBodies == {"<room>", "<broken", "\\xff"}

\* InputHandler::handle up to the lock: the body is read and matched; any body other
\* than "start" / "stop" is answered 400 and nothing is appended.
InputHandlerBegin(body) ==
    /\ Serving
    /\ nextId < MaxCommands
    /\ nextId' = nextId + 1
    /\ inflight' = IF body = "start" THEN inflight \cup {InputCommand(nextId, "Start")}
                   ELSE IF body = "stop" THEN inflight \cup {InputCommand(nextId, "Stop")}
                   ELSE inflight
    /\ UNCHANGED <<commands, running, spc, command, enqueued, applied>>
    /\ QueueRest

\* SetProjectHandler::handle up to the lock: a body that is no UTF-8 is answered 400.
SetProjectHandlerBegin(body) ==
    /\ Serving
    /\ nextId < MaxCommands
    /\ nextId' = nextId + 1
    /\ inflight' = IF body = "\\xff" THEN inflight
                   ELSE inflight \cup {SetProjectCommand(nextId, body)}
    /\ UNCHANGED <<commands, running, spc, command, enqueued, applied>>
    /\ QueueRest

\* A push that appends the command twice.
push_back_twice(q, x) == Append(Append(q, x), x)
push_back(q, x) == Append(q, x)
\* VecDeque::pop_back in the place of pop_front.
pop_back(q) ==
    IF q = <<>> THEN [command |-> <<>>, commands |-> q]
    ELSE [command |-> <<q[Len(q)]>>, commands |-> SubSeq(q, 1, Len(q) - 1)]
\* VecDeque::pop_front: the popped element (<<>> for None) and the rest.
pop_front(q) ==
    IF q = <<>> THEN [command |-> <<>>, commands |-> q]
    ELSE [command |-> <<Head(q)>>, commands |-> Tail(q)]

\* `self.runtime.lock().unwrap().commands.push_back(..)` of either handler, and its
\* 200 response.
HandlerPush ==
    /\ Serving
    /\ \E c \in inflight :
          /\ inflight' = inflight \ {c}
          /\ commands' = push_back(commands, c)
          /\ enqueued' = Append(enqueued, c)
    /\ UNCHANGED <<running, spc, command, applied, nextId>>
    /\ QueueRest

\* TogglePausedHandler::handle: `running ^= true` under the lock.
TogglePaused ==
    /\ Serving
    /\ running' = ~running
    /\ UNCHANGED <<commands, inflight, spc, command, enqueued, applied, nextId>>
    /\ QueueRest

\* `let command = self.runtime.lock().unwrap().commands.pop_front();`
SchedPop ==
    /\ spc = "pop"
    /\ command' = pop_front(commands).command
    /\ commands' = pop_front(commands).commands
    /\ spc' = "apply"
    /\ UNCHANGED <<inflight, running, enqueued, applied, nextId>>
    /\ QueueRest

\* ---------------------------------------------------- projects and rings

\* Messages of one run that reach the rings, the two of the boot included.
MaxLines == 5
\* Messages a ring holds before the oldest is evicted (the code's rings hold
\* OUTPUT_BUFFER_SIZE / ERROR_BUFFER_SIZE bytes).
RingCapacity == 3

\* EMPTY_PROJECT, compiled when nothing is stored.
EmptyProject == "<empty>"

\* An open_project that hands back a role for any text.
open_project_any(xml) == [ok |-> TRUE, err |-> ""]
\* open_project: the parser's verdict on the XML, then the number of roles.
open_project(xml) ==
    CASE xml = "<broken" -> [ok |-> FALSE, err |-> "ParseError"]
      [] xml = "<norole>" -> [ok |-> FALSE, err |-> "NoRoles"]
      [] xml = "<tworoles>" -> [ok |-> FALSE, err |-> "MultipleRoles"]
      [] OTHER -> [ok |-> TRUE, err |-> ""]
\* get_env: `ByteCode::compile(role).unwrap()`; "panic" when the role does not compile.
get_env(xml) == IF xml = "<nocompile>" THEN "panic" ELSE "ok"

\* The lines of the messages the loop prints.
UpdatedMsg == <<"", ">>> updated project", "">>
FailedMsg == <<"", ">>> failed to load project: {e:?}", ">>> keeping old project", "">>
ErrorMsg == <<"", ">>> error {}", "">>
PrintMsg == <<"{entity:?} > {value:?}">>
BootingMsg == <<"", ">>> booting...", "", "">>
StartingMsg == <<"", ">>> starting project (public id: {})", "">>

\* StringRing::push of one message: the oldest messages leave when the ring is full.
ring_push(ring, m) ==
    IF Len(ring) < RingCapacity THEN Append(ring, m)
    ELSE Append(SubSeq(ring, Len(ring) - RingCapacity + 2, Len(ring)), m)
\* tee_println!: the message and its newline are pushed under one lock.
tee_println(ring, id, lines) == ring_push(ring, [id |-> id, lines |-> lines])

\* An Entry::set that returns Ok without writing.
set_nothing(entry, value) == entry
\* Entry::set on a stored entry: the value is written.
set(entry, value) == <<value>>

\* A get_env whose Env comes with its green-flag scripts already started.
from_init_started == <<"Start">>
\* Project::from_init in get_env: the new Env has been given no input.
from_init == <<>>
\* `proj.input(mc, x)`: the Env is given the input.
input(inputs, x) == Append(inputs, x)

\* An Input arm that leaves the flag alone whatever the input.
input_running_keep(flag, x) == flag
\* `if let Input::Start = &x { ..running = true; }`: the flag after the Input arm.
input_running(flag, x) == IF x = "Start" THEN TRUE ELSE flag

\* `match command` up to the end of the arm. None does nothing. Input(Start) sets
\* running and either input is passed to the project. SetProject opens and compiles the
\* XML: a project that does not open is reported and the old Env kept; one that does
\* not compile aborts the loop in get_env's unwrap; otherwise the Env is swapped and
\* the arm goes on to store the XML.
SchedApply ==
    /\ spc = "apply"
    /\ IF command = <<>>
       THEN /\ spc' = "check"
            /\ UNCHANGED <<command, applied, running, projVars>>
       ELSE IF command[1].cmd = "Input"
       THEN /\ running' = input_running(running, command[1].arg)
            /\ env_inputs' = input(env_inputs, command[1].arg)
            /\ applied' = Append(applied, command[1])
            /\ command' = <<>>
            /\ spc' = "check"
            /\ UNCHANGED <<running_env, project, output, runtime_errors, pulls, nextLine>>
       ELSE IF ~open_project(command[1].arg).ok
       THEN /\ output' = tee_println(output, nextLine, FailedMsg)
            /\ nextLine' = nextLine + 1
            /\ applied' = Append(applied, command[1])
            /\ command' = <<>>
            /\ spc' = "check"
            /\ UNCHANGED <<running, running_env, env_inputs, project, runtime_errors, pulls>>
       ELSE IF get_env(command[1].arg) = "panic"
       THEN /\ spc' = "panicked"
            /\ UNCHANGED <<command, applied, running, projVars>>
       ELSE /\ running_env' = command[1].arg
            /\ env_inputs' = from_init
            /\ spc' = "persist"
            /\ UNCHANGED <<command, applied, running, project, output, runtime_errors,
                           pulls, nextLine>>
    /\ UNCHANGED <<commands, inflight, enqueued, nextId>>
    /\ SchedRest

\* The rest of the SetProject arm after the swap:
\* `self.storage.lock().unwrap().project().set(&xml).unwrap()` (setOk: whether the store
\* takes the value), then the message.
SchedPersist(setOk) ==
    /\ spc = "persist"
    /\ IF setOk
       THEN /\ project' = set(project, command[1].arg)
            /\ output' = tee_println(output, nextLine, UpdatedMsg)
            /\ nextLine' = nextLine + 1
            /\ applied' = Append(applied, command[1])
            /\ command' = <<>>
            /\ spc' = "check"
            /\ UNCHANGED <<running_env, env_inputs, runtime_errors, pulls>>
       ELSE /\ spc' = "panicked"
            /\ UNCHANGED <<command, applied, projVars>>
    /\ UNCHANGED <<commands, inflight, running, enqueued, nextId>>
    /\ SchedRest

\* A check that lets the batch run whatever the flag.
after_check_always(flag) == "batch"
\* `if !running { continue }`: where the loop goes after it has read the flag.
after_check(flag) == IF flag THEN "batch" ELSE "pop"

\* `let running = ..running; if !running { continue }`
SchedCheckRunning ==
    /\ spc = "check"
    /\ spc' = after_check(running)
    /\ UNCHANGED <<commands, inflight, running, command, enqueued, applied, nextId>>
    /\ QueueRest

\* One step of the batch that reaches the rings: a Print command of the project
\* (tee_println under the lock) or a step error (the message, then the error line,
\* under one lock). The other steps of the batch change nothing here.
StepRings(res) ==
    /\ nextLine < MaxLines
    /\ nextLine' = nextLine + 1
    /\ output' = tee_println(output, nextLine, IF res = "error" THEN ErrorMsg ELSE PrintMsg)
    /\ runtime_errors' = IF res = "error"
                         THEN ring_push(runtime_errors, [id |-> nextLine, lines |-> <<"{json}">>])
                         ELSE runtime_errors
    /\ UNCHANGED <<running_env, env_inputs, project, pulls>>
SchedStep(res) ==
    /\ spc = "batch"
    /\ StepRings(res)
    /\ UNCHANGED schedVars
    /\ SchedRest

\* The end of the batch of STEP_BATCH_SIZE steps and the collection that may follow it.
SchedBatch ==
    /\ spc = "batch"
    /\ spc' = "pop"
    /\ UNCHANGED projVars
    /\ UNCHANGED <<commands, inflight, running, command, enqueued, applied, nextId>>
    /\ SchedRest

\* A clear that leaves the ring as it is.
clear_nothing(ring) == ring
\* StringRing::clear
clear(ring) == <<>>

\* PullStatusHandler::handle: under one lock the flag and both rings are written to
\* the response and both rings are cleared.
PullStatus ==
    /\ Serving
    /\ pulls' = [pulls EXCEPT !.output = @ \o output,
                              !.errors = @ \o runtime_errors,
                              !.last = [running |-> running, output |-> output,
                                        errors |-> runtime_errors],
                              !.prev = pulls.upto,
                              !.upto = nextLine]
    /\ output' = clear(output)
    /\ runtime_errors' = clear(runtime_errors)
    /\ UNCHANGED <<running_env, env_inputs, project, nextLine>>
    /\ UNCHANGED schedVars
    /\ SchedRest

NextSched ==
    \/ \E body \in InputBodies : InputHandlerBegin(body)
    \/ \E body \in ProjectBodies : SetProjectHandlerBegin(body)
    \/ HandlerPush
    \/ TogglePaused
    \/ SchedPop
    \/ SchedApply
    \/ \E setOk \in BOOLEAN : SchedPersist(setOk)
    \/ SchedCheckRunning
    \/ SchedBatch

\* Executor::run has reached its loop: the stored project (or the empty one) is
\* compiled and started, the boot messages are in the output ring.
InitProj ==
    /\ project \in {<<>>, <<"<stored>">>}
    /\ running_env = IF project = <<>> THEN EmptyProject ELSE project[1]
    /\ env_inputs = input(from_init, "Start")
    /\ output = <<[id |-> 0, lines |-> BootingMsg], [id |-> 1, lines |-> StartingMsg]>>
    /\ runtime_errors = <<>>
    /\ pulls = [output |-> <<>>, errors |-> <<>>, last |-> <<>>, prev |-> 0, upto |-> 0]
    /\ nextLine = 2

\* Executor::run has reached its loop: the queue is empty, running is true
\* (Executor::new), no peripheral is bound.
InitSched ==
    /\ commands = <<>>
    /\ inflight = {}
    /\ running = TRUE
    /\ spc = "pop"
    /\ command = <<>>
    /\ enqueued = <<>>
    /\ applied = <<>>
    /\ nextId = 0

SpecSchedInit ==
    InitEmptyLayout /\ pixel = <<>> /\ call = IdleCall /\ InitSched /\ InitProj /\ InitBusOff
SpecSched == SpecSchedInit /\ [][NextSched]_vars

\* Projects posted to /project: two that load, one the parser refuses, one without a
\* role, one with two roles, one whose role does not compile.
LoadableProjects == {"<room>", "<maze>"}
AllProjectBodies == LoadableProjects \cup {"<broken", "<norole>", "<tworoles>", "<nocompile>"}

\* The loop against POST /project and /input calls.
NextProject ==
    \/ \E body \in AllProjectBodies : SetProjectHandlerBegin(body)
    \/ InputHandlerBegin("stop")
    \/ HandlerPush
    \/ SchedPop
    \/ SchedApply
    \/ \E setOk \in BOOLEAN : SchedPersist(setOk)
    \/ SchedCheckRunning
    \/ SchedBatch

SpecProject == SpecSchedInit /\ [][NextProject]_vars

\* The loop stepping a project that prints and fails, against POST /pull calls.
NextPull ==
    \/ SchedPop
    \/ SchedApply
    \/ SchedCheckRunning
    \/ \E res \in {"print", "error"} : SchedStep(res)
    \/ SchedBatch
    \/ PullStatus
    \/ TogglePaused

SpecPull == SpecSchedInit /\ [][NextPull]_vars

\* ------------------------------------------------------------------------
\* Properties of bind_syscalls
\* ------------------------------------------------------------------------

\* Every pin slot of a bound device handle: <<kind, name, slot, pin>>.
Slots ==
    {<<"digital_ins", n, "pin", digital_ins[n].pin>> : n \in DOMAIN digital_ins}
    \cup {<<"digital_outs", n, "pin", digital_outs[n].pin>> : n \in DOMAIN digital_outs}
    \cup {<<"motors", n, "positive", motors[n].positive.pin>> : n \in DOMAIN motors}
    \cup {<<"motors", n, "negative", motors[n].negative.pin>> : n \in DOMAIN motors}
    \cup {<<"hcsr04s", n, "trigger", hcsr04s[n].trigger>> : n \in DOMAIN hcsr04s}
    \cup {<<"hcsr04s", n, "echo", hcsr04s[n].echo>> : n \in DOMAIN hcsr04s}
    \cup (IF i2c.some THEN {<<"i2c", "", "sda", i2c.sda>>, <<"i2c", "", "scl", i2c.scl>>}
          ELSE {})
HeldPins == {sl[4] : sl \in Slots}
LogIdx == 1..Len(log)

\* C1: after bind_syscalls (and at every point during it) no GPIO is held by two
\* pin slots of bound device handles: digital in, digital out, motor leg, HCSR04
\* trigger / echo, I2C bus line.
C1_PinExclusive ==
    \A sl \in Slots, tl \in Slots : sl # tl => sl[4] # tl[4]

\* C1 witness: bind has returned, a device is bound on a pin, and a later entry that
\* named the same pin was refused with PinAlreadyTaken.
C1_Witness ==
    /\ bpc = "done"
    /\ \E i \in LogIdx : log[i].tag = "PinAlreadyTaken" /\ log[i].pin \in HeldPins

\* How often the entries read so far name GPIO p.
UseCount(p) ==
    Cardinality({<<i, k>> \in LogIdx \X {1, 2} : k <= Len(log[i].gpios) /\ log[i].gpios[k] = p})

\* C2 (as stated): once bind has returned, a GPIO named twice by the layout is held
\* by exactly one bound device and was refused exactly once with PinAlreadyTaken,
\* and every pin marked taken in the ledger is held by a bound device.
C2_OneBindingOneError ==
    (bpc = "done" /\ \E q \in 0..LastPin : UseCount(q) = 2) =>
        /\ \A p \in 0..LastPin : UseCount(p) = 2 =>
              /\ Cardinality({sl \in Slots : sl[4] = p}) = 1
              /\ Cardinality({i \in LogIdx : log[i].tag = "PinAlreadyTaken"
                                              /\ log[i].pin = p}) = 1
        /\ \A p \in 0..LastPin : p \notin pins => p \in HeldPins

\* An entry that is valid on its own: its pins exist, can do what the kind asks of
\* them, and differ from one another; a group names motors only.
ValidAlone(e) ==
    CASE e.kind = "i2c" -> /\ e.gpios[1] \in 0..LastPin /\ e.gpios[2] \in 0..LastPin
                           /\ e.gpios[1] # e.gpios[2]
                           /\ try_into("input_output", e.gpios[1])
                           /\ try_into("input_output", e.gpios[2])
      [] e.kind = "digital_ins" -> e.gpios[1] \in 0..LastPin
      [] e.kind = "digital_outs" -> e.gpios[1] \in 0..LastPin /\ try_into("output", e.gpios[1])
      [] e.kind = "motors" -> /\ e.gpios[1] \in 0..LastPin /\ e.gpios[2] \in 0..LastPin
                              /\ e.gpios[1] # e.gpios[2]
                              /\ try_into("output", e.gpios[1])
                              /\ try_into("output", e.gpios[2])
      [] e.kind = "hcsr04s" -> /\ e.gpios[1] \in 0..LastPin /\ e.gpios[2] \in 0..LastPin
                               /\ e.gpios[1] # e.gpios[2]
                               /\ try_into("output", e.gpios[1])
      [] OTHER -> FALSE

\* C3 (as stated): an entry with pins that is valid on its own and whose GPIOs are
\* held by no bound device is not refused for its pins, whatever entries failed
\* before it. (Devices are never unbound: a pin no device holds now was held by none
\* when the entry was read.)
C3_BadEntryIsolated ==
    \A i \in LogIdx :
        (ValidAlone(log[i]) /\ \A k \in 1..Len(log[i].gpios) : log[i].gpios[k] \notin HeldPins)
        => log[i].tag # "PinAlreadyTaken"

\* The handle map an entry of a kind is entered in (single motors are entered in the
\* map of the groups as groups of one).
MapOf(kind) == IF kind = "motors" THEN "motor_groups" ELSE kind
HandleMap(kind) ==
    CASE kind = "digital_ins" -> digital_ins
      [] kind = "digital_outs" -> digital_outs
      [] kind = "motor_groups" -> motor_groups
      [] kind = "hcsr04s" -> hcsr04s
      [] OTHER -> i2c_devices[kind]
MapKinds == {"digital_ins", "digital_outs", "motor_groups", "hcsr04s"} \cup I2cKinds

BoundBefore(i) ==
    {j \in 1..(i - 1) : /\ log[j].ok
                        /\ MapOf(log[j].kind) = MapOf(log[i].kind)
                        /\ log[j].name = log[i].name}

MenuEntries ==
    UNION {{<<syscalls[s].label, syscalls[s].content[i], op>> :
               i \in DOMAIN syscalls[s].content, op \in OpsOf(syscalls[s].label)} :
           s \in DOMAIN syscalls}
InMenu(k, n) == \E op \in OpsOf(LabelOf(k)) : <<LabelOf(k), n, op>> \in MenuEntries
AllInMenu(k, n) == \A op \in OpsOf(LabelOf(k)) : <<LabelOf(k), n, op>> \in MenuEntries
LogNames == {log[i].name : i \in LogIdx}

\* The first half of C28: the menu lists a name under a kind exactly when the kind's
\* handle map holds it.
MenuIsMap ==
    /\ \A k \in MapKinds : \A n \in LogNames \cup DOMAIN HandleMap(k) :
          /\ InMenu(k, n) <=> n \in DOMAIN HandleMap(k)
          /\ InMenu(k, n) => AllInMenu(k, n)
    /\ \A e \in MenuEntries : \E k \in MapKinds : LabelOf(k) = e[1] /\ e[2] \in LogNames

\* The entries of the layout, other than i, that are bound under the name and in the
\* map of entry i.
BoundOther(i) ==
    {j \in LogIdx \ {i} : /\ log[j].ok
                          /\ MapOf(log[j].kind) = MapOf(log[i].kind)
                          /\ log[j].name = log[i].name}
Absent(i) ==
    /\ log[i].name \notin DOMAIN HandleMap(MapOf(log[i].kind))
    /\ ~InMenu(MapOf(log[i].kind), log[i].name)

\* C28 (as stated): after bind the menu has `<Kind>.<name>.<op>` iff the handle map of
\* the kind holds <name>, and the name of an entry that produced an InitError, no
\* earlier entry being bound under it, is in neither.
C28_MenuAgrees ==
    bpc = "done" =>
        /\ MenuIsMap
        /\ \A i \in LogIdx :
              (log[i].kind # "i2c" /\ ~log[i].ok /\ BoundBefore(i) = {}) => Absent(i)

\* C28 (amended): the same, the name of a failed entry being in neither when no other
\* entry of its map, earlier or later in the layout, is bound under it.
C28_MenuAgreesUnlessRebound ==
    bpc = "done" =>
        /\ MenuIsMap
        /\ \A i \in LogIdx :
              (log[i].kind # "i2c" /\ ~log[i].ok /\ BoundOther(i) = {}) => Absent(i)

\* C28 witness: bind has returned with one entry bound and listed and another, under a
\* name of its own, refused and listed nowhere.
C28_Witness ==
    /\ bpc = "done"
    /\ \E i \in LogIdx, j \in LogIdx :
          /\ log[i].ok /\ log[i].kind # "i2c" /\ AllInMenu(MapOf(log[i].kind), log[i].name)
          /\ ~log[j].ok /\ log[j].kind # "i2c" /\ BoundOther(j) = {} /\ Absent(j)

\* The place of a kind in the order of the claim: the bus, the five kinds with pins or
\* members, then the I2C devices.
Rank(k) ==
    CASE k = "i2c" -> 1
      [] k = "digital_ins" -> 2
      [] k = "digital_outs" -> 3
      [] k = "motors" -> 4
      [] k = "motor_groups" -> 5
      [] k = "hcsr04s" -> 6
      [] OTHER -> 7
GpiosOf(i) == {log[i].gpios[k] : k \in 1..Len(log[i].gpios)}
SharedPins(i, j) == GpiosOf(i) \cap GpiosOf(j)
\* Entry i of an earlier kind and entry j of a later kind name a same GPIO.
TwoKindsOnePin(i, j) == Rank(log[i].kind) < Rank(log[j].kind) /\ SharedPins(i, j) # {}
\* Nothing but entry `other` stands in the way of entry i: it is valid on its own, no
\* driver call failed on it, and no third entry names one of its GPIOs or its name.
Undisturbed(i, other) ==
    /\ ValidAlone(log[i])
    /\ log[i].tag \notin {"EspError", "PwmOutOfChannels"}
    /\ \A k \in LogIdx \ {i, other} :
          /\ SharedPins(i, k) = {}
          /\ ~(MapOf(log[k].kind) = MapOf(log[i].kind) /\ log[k].name = log[i].name)
\* The motors bound before entry i was read.
MotorsBoundBefore(i) ==
    {log[k].name : k \in {m \in 1..(i - 1) : log[m].kind = "motors" /\ log[m].ok}}

Legs ==
    {<<n, "positive", motors[n].positive.channel>> : n \in DOMAIN motors}
    \cup {<<n, "negative", motors[n].negative.channel>> : n \in DOMAIN motors}

\* The state part of C5: no channel on two legs; the channels still in the pool are
\* the highest ones (they leave in the order channel0 .. channel7), a motor's positive
\* leg got its channel before its negative leg; at most 4 motors are bound.
PwmPoolOk ==
    /\ \A a \in Legs, b \in Legs : a # b => a[3] # b[3]
    /\ \A c \in channels, d \in PwmManagerNew : d > c => d \in channels
    /\ \A a \in Legs : a[3] \in PwmManagerNew /\ a[3] \notin channels
    /\ \A n \in DOMAIN motors : motors[n].positive.channel < motors[n].negative.channel
    /\ Cardinality(DOMAIN motors) * 2 <= NumPwmChannels

\* The step part of C5: a motor entry read when no channel is left is refused, with
\* PwmOutOfChannels unless its gpio_pos was refused first.
PwmExhaustedStep ==
    (channels = {} /\ Len(log') = Len(log) + 1) =>
        LET e == log'[Len(log')]
        IN  /\ ~e.ok
            /\ motors' = motors
            /\ \/ e.tag = "PwmOutOfChannels"
               \/ pwmsSome /\ e.pin = e.gpios[1]
                  /\ e.tag \in {"PinUnknown", "PinAlreadyTaken", "PinInsufficientCapability"}

\* C5: each PWM channel drives at most one output pin, the channels are handed out in
\* the order channel0 .. channel7, every take after the eighth gives PwmOutOfChannels,
\* and so at most 4 motors are ever bound.
C5_PwmChannels == [](PwmPoolOk) /\ [][PwmExhaustedStep]_vars

\* C5 witness: four motors hold all eight channels and a fifth entry, with usable
\* pins, was refused with PwmOutOfChannels.
C5_Witness ==
    /\ channels = {}
    /\ Cardinality(DOMAIN motors) = 4
    /\ log # <<>>
    /\ log[Len(log)].tag = "PwmOutOfChannels"

\* ------------------------------------------------------------------------
\* Properties of the syscall request handler
\* ------------------------------------------------------------------------

\* C6: a motor never has both legs driven: in every state, between the two set_duty
\* writes of a set_power and after a failed write included, at most one of a motor's
\* positive and negative duty is non-zero.
C6_NeverBothLegs ==
    \A m \in DOMAIN duty : ~(duty[m].positive # 0 /\ duty[m].negative # 0)

\* C6 witness: a motor that was driven forward is being reversed, and the handler
\* stands between the two writes of that set_power.
C6_Witness ==
    /\ call.pc = "setPower"
    /\ call.leg = 2
    /\ call.before.positive # 0
    /\ Duty(call.args[call.idx]) < 0

\* C7: the key of a request the handler returns Handled for has been completed
\* exactly once, whatever the path; the key of a request it returns UseDefault for has
\* not been completed.
C7_KeyCompletedOnce ==
    /\ call.status = "Handled" => call.completions = 1
    /\ call.status = "UseDefault" => call.completions = 0

\* C7 witness: the handler has returned Handled on the out-of-bounds pixel path.
C7_Witness ==
    /\ call.pc = "returned"
    /\ call.status = "Handled"
    /\ call.completions = 1
    /\ ~call.reply.ok
    /\ call.reply.err.text = "pixel position ({}, {}) is out of bounds"

\* C8 (as stated): a failing driver operation behind a syscall is reported through
\* the key: the handler never aborts with the key left uncompleted.
C8_NoPanic == call.pc # "panicked"

\* The handle map the dispatcher looks a peripheral of a kind up in.
DispatchMap(k) ==
    CASE k = "DigitalIn" -> digital_ins
      [] k = "DigitalOut" -> digital_outs
      [] k = "Motor" -> motor_groups
      [] k = "HCSR04" -> hcsr04s
      [] k = "MAX30205" -> i2c_devices["max30205s"]
      [] k = "IS31FL3741" -> i2c_devices["is31fl3741s"]
      [] k = "BMP388" -> i2c_devices["bmp388s"]
      [] k = "LIS3DH" -> i2c_devices["lis3dhs"]
      [] k = "VEML7700" -> i2c_devices["veml7700s"]

\* The handler has returned on a syscall whose name has three tokens.
ReturnedSyscall == call.pc = "returned" /\ call.type = "Syscall" /\ Len(call.name) = 3
UnknownKind == call.name[1] \notin Kinds
UnknownInstance == ~UnknownKind /\ call.name[2] \notin DOMAIN DispatchMap(call.name[1])
UnknownOp == ~UnknownKind /\ ~UnknownInstance /\ call.name[3] \notin OpsOf(call.name[1])

\* C9 (as stated): an unknown kind, an unknown instance of a known kind and an unknown
\* op of a known instance each complete the key with an error; none is left to the
\* default handler.
C9_UnknownsCompleteKey ==
    (ReturnedSyscall /\ (UnknownKind \/ UnknownInstance \/ UnknownOp)) =>
        call.status = "Handled" /\ call.completions = 1 /\ ~call.reply.ok

\* C9 (amended): an unknown instance of a known kind completes the key with
\* `unknown <kind> peripheral: "<instance>"`, an unknown op of a known instance with
\* `unknown <kind> function: "<op>"`; an unknown kind, like a name that has not three
\* tokens, is left to the default handler with the key not completed.
C9_UnknownsByCase ==
    /\ (ReturnedSyscall /\ UnknownInstance) =>
          /\ call.status = "Handled" /\ call.completions = 1
          /\ call.reply = ReplyErr(Msg("unknown {} peripheral: {:?}",
                                       call.name[1], call.name[2], "", 0, 0))
    /\ (ReturnedSyscall /\ UnknownOp) =>
          /\ call.status = "Handled" /\ call.completions = 1
          /\ call.reply = ReplyErr(Msg("unknown {} function: {:?}",
                                       call.name[1], "", call.name[3], 0, 0))
    /\ (ReturnedSyscall /\ UnknownKind) =>
          call.status = "UseDefault" /\ call.completions = 0
    /\ (call.pc = "returned" /\ call.type = "Syscall" /\ Len(call.name) # 3) =>
          call.status = "UseDefault" /\ call.completions = 0

\* C9 witness: on the empty layout the handler has returned on a syscall of a kind it
\* does not know, and left it to the default handler.
C9_Witness ==
    /\ ReturnedSyscall
    /\ UnknownKind
    /\ digital_ins = EmptyMap
    /\ call.status = "UseDefault"

\* ------------------------------------------------------------------------
\* Properties of the scheduler loop
\* ------------------------------------------------------------------------

\* C10: the commands applied so far, the command popped and not yet applied, and the
\* queue make up, in this order, the sequence of commands the handlers appended: the
\* scheduler applies in append order, none twice, none lost.
C10_Fifo ==
    /\ enqueued = applied \o command \o commands
    /\ \A i \in 1..Len(applied), j \in 1..Len(applied) :
          i # j => applied[i].id # applied[j].id

\* C10 witness: three handler calls overlapped (the second to read its body appended
\* first), two commands waited in the queue together, and all three were applied:
\* a start, a stop and a project.
C10_Witness ==
    /\ Len(applied) = 3
    /\ applied[1].id > applied[2].id
    /\ {applied[i].cmd : i \in 1..3} = {"Input", "SetProject"}
    /\ {applied[i].arg : i \in 1..3} \cap {"Start", "Stop"} = {"Start", "Stop"}

\* ------------------------------------------------------------------------
\* Properties of project replacement
\* ------------------------------------------------------------------------

\* A project that fails to load: parse error, no role, several roles, compile error.
FailsToLoad(xml) == xml \in {"<broken", "<norole>", "<tworoles>", "<nocompile>"}
LastMessage(ring) == ring[Len(ring)]

\* C11 (as stated): when the loop applies a SetProject whose XML fails to load, the
\* running Env and the stored project stay as they are, the output ring gains the
\* message with the line `>>> failed to load project..`, and the loop goes on to its
\* step batch.
C11_FailedLoadKeepsOld ==
    [][(/\ spc = "apply" /\ spc' # "apply"
        /\ command # <<>> /\ command[1].cmd = "SetProject" /\ FailsToLoad(command[1].arg))
       => /\ running_env' = running_env
          /\ project' = project
          /\ spc' = "check"
          /\ output' # <<>>
          /\ \E k \in 1..Len(LastMessage(output').lines) :
                LastMessage(output').lines[k] = ">>> failed to load project: {e:?}"]_vars

\* The commands applied so far that replaced the project.
LoadedIdx == {i \in 1..Len(applied) : applied[i].cmd = "SetProject" /\ ~FailsToLoad(applied[i].arg)}
Max(S) == CHOOSE x \in S : \A y \in S : x >= y
\* The loop stands between two arms of its body (not inside the SetProject arm, not aborted).
BetweenArms == spc \in {"pop", "apply", "check", "batch"}

\* C12: whenever the loop is outside the SetProject arm, and so whenever it steps the
\* project, the stored project and the running Env are those of the most recent
\* SetProject that loaded (the boot project while there is none): the swap and the
\* store happen in one iteration, and the old Env is not stepped after the swap.
C12_SwapAndPersist ==
    /\ BetweenArms =>
          IF LoadedIdx = {}
          THEN running_env = (IF project = <<>> THEN EmptyProject ELSE project[1])
          ELSE /\ project = <<applied[Max(LoadedIdx)].arg>>
               /\ running_env = applied[Max(LoadedIdx)].arg
    /\ spc = "persist" => running_env = command[1].arg

\* C12 witness: two projects were loaded one after the other, a third was refused, and
\* the loop is about to step: the second project is the one stored and running.
C12_Witness ==
    /\ spc = "batch"
    /\ Len(applied) = 3
    /\ applied[1].arg = "<room>"
    /\ applied[2].arg = "<maze>"
    /\ applied[3].arg = "<broken"
    /\ project = <<"<maze>">>

\* ------------------------------------------------------------------------
\* Properties of the rings
\* ------------------------------------------------------------------------

\* The ids of the messages in a ring, oldest first.
Ids(ring) == [i \in 1..Len(ring) |-> ring[i].id]
Increasing(q) == \A i \in 1..Len(q), j \in 1..Len(q) : i < j => q[i] < q[j]
\* The last messages, at most RingCapacity of them, of those numbered from..(to - 1).
Kept(from, to) ==
    LET n == IF to - from < RingCapacity THEN to - from ELSE RingCapacity
    IN  [i \in 1..n |-> to - n + i - 1]

\* C13: POST /pull takes and clears both rings in one step with respect to the loop.
\* No message is returned by two pulls or out of order; the output ring holds exactly
\* the messages pushed since the last pull, the oldest evicted on overflow, and the
\* last pull returned exactly those pushed between it and the one before; every error
\* message still in the output ring has its line in the error ring, which holds lines
\* pushed since the last pull only. So a pull that follows another with no push in
\* between returns no output and no errors.
C13_PullAtomic ==
    /\ Increasing(Ids(pulls.output \o output))
    /\ Increasing(Ids(pulls.errors \o runtime_errors))
    /\ Ids(output) = Kept(pulls.upto, nextLine)
    /\ \A i \in 1..Len(runtime_errors) :
          runtime_errors[i].id >= pulls.upto /\ runtime_errors[i].id < nextLine
    /\ \A i \in 1..Len(output) :
          output[i].lines = ErrorMsg
          => \E j \in 1..Len(runtime_errors) : runtime_errors[j].id = output[i].id
    /\ pulls.last # <<>> =>
          /\ Ids(pulls.last.output) = Kept(pulls.prev, pulls.upto)
          /\ \A i \in 1..Len(pulls.last.errors) :
                pulls.last.errors[i].id >= pulls.prev /\ pulls.last.errors[i].id < pulls.upto

\* C13 witness: messages were pushed, one was evicted before any pull, a pull returned
\* the rest with an error line, and the pull right after it returned nothing.
C13_Witness ==
    /\ pulls.last # <<>>
    /\ pulls.prev = pulls.upto
    /\ pulls.last.output = <<>>
    /\ pulls.last.errors = <<>>
    /\ pulls.errors # <<>>
    /\ Len(pulls.output) < pulls.upto
    /\ Len(pulls.output) = RingCapacity

\* ------------------------------------------------------------------------
\* The reply table of the message bus (system.rs:88-139 and 336-360)
\* ------------------------------------------------------------------------

\* const MESSAGE_REPLY_TIMEOUT: Duration = Duration::from_millis(1500)
MESSAGE_REPLY_TIMEOUT == 1500
\* Calls of send_message with expect_reply made during one run.
MaxRequests == 2
\* The clock reading the run stops at, in ms.
MaxClock == 3000
\* How far the clock reading moves between two operations.
ClockSteps == {500, 1000}
\* The bodies of the `__reply__` frames.
ReplyValues == {"42", "43"}
\* Request ids: the n-th Uuid::new_v4() is n.  The last frame id is one no send_message
\* has produced.
FrameIds == 1 .. (MaxRequests + 1)

\* BTreeMap::get: <<>> for None, <<entry>> for Some(entry).  A key that was removed keeps
\* its place in the sequence with <<>>.
get(table, key) == IF key \in DOMAIN table THEN table[key] ELSE <<>>
remove(table, key) == [table EXCEPT ![key] = <<>>]
ReplyEntry(expiry, value) == [expiry |-> expiry, value |-> value]
Completed(value) == [tag |-> "Completed", value |-> value]
Pending == [tag |-> "Pending", value |-> <<>>]
\* What the history keeps of an operation that returns no AsyncResult.
NoResult == [tag |-> "none", value |-> <<>>]
Frame(value) == [tag |-> "frame", value |-> <<value>>]

\* `self.clock.read(Precision::Low) > entry.expiry`
past_or_at(now, expiry) == now >= expiry
past(now, expiry) == now > expiry

\* `if entry.value.is_none() { entry.value = Some(value) }`
store_last(entry, value) == [entry EXCEPT !.value = <<value>>]
store(entry, value) == IF entry.value = <<>> THEN [entry EXCEPT !.value = <<value>>] ELSE entry

\* poll_reply: the result and the table it leaves.  The key has an entry (`.unwrap()`).
poll_reply(table, key, now) ==
    LET entry == get(table, key)[1] IN
    IF entry.value # <<>>
    THEN [result |-> Completed(entry.value), table |-> remove(table, key)]
    ELSE IF past(now, entry.expiry)
         THEN [result |-> Completed(<<>>), table |-> remove(table, key)]
         ELSE [result |-> Pending, table |-> table]

OtherRest == UNCHANGED <<bindVars, callVars, pulseVars, inVars, schedVars, projVars, wifiVars, batchVars>>
ReplyRest == OtherRest /\ UNCHANGED outVars

\* An OutgoingMessage: the n-th message of the scheduler task, its variant, and the
\* request id of a Blocking one (0 otherwise).
OutgoingMessage(n, variant, key) == [n |-> n, variant |-> variant, request_id |-> key]
\* `self.message_sender.send(msg).unwrap()`
channel_push_front(chan, m) == <<m>> \o chan
channel_send(chan, m) == Append(chan, m)
MessageSend(variant, key) ==
    LET m == OutgoingMessage(Len(sent) + 1, variant, key) IN
    /\ msg_out' = channel_send(msg_out, m)
    /\ sent' = Append(sent, m)
    /\ UNCHANGED <<ws_chan, shaping, sending, wire>>

\* send_message(.., expect_reply = true): a process of the running Env gets the key.
SendMessage ==
    /\ Len(message_replies) < MaxRequests
    /\ LET key == Len(message_replies) + 1 IN
        /\ message_replies' =
               Append(message_replies, <<ReplyEntry(clock + MESSAGE_REPLY_TIMEOUT, <<>>)>>)
        /\ waiting' = waiting \cup {key}
        /\ reply_op' = [op |-> "send", key |-> key, now |-> clock, result |-> NoResult]
        /\ MessageSend("Blocking", key)
    /\ UNCHANGED clock
    /\ OtherRest

\* ws_on_msg on a frame {type: "message", msgType: "__reply__", requestId, content: {body}}.
WsReply(key, value) ==
    /\ message_replies' =
           IF get(message_replies, key) # <<>>
           THEN [message_replies EXCEPT ![key] = <<store(@[1], value)>>]
           ELSE message_replies
    /\ reply_op' = [op |-> "reply", key |-> key, now |-> clock, result |-> Frame(value)]
    /\ UNCHANGED <<clock, waiting>>
    /\ ReplyRest

\* A process polls the key it holds; a completed key is dropped by the process.
PollReply(key) ==
    /\ key \in waiting
    /\ LET r == poll_reply(message_replies, key, clock) IN
        /\ message_replies' = r.table
        /\ waiting' = IF r.result.tag = "Completed" THEN waiting \ {key} ELSE waiting
        /\ reply_op' = [op |-> "poll", key |-> key, now |-> clock, result |-> r.result]
    /\ UNCHANGED clock
    /\ ReplyRest

\* Time passes.
ClockTick(d) ==
    /\ clock + d <= MaxClock
    /\ clock' = clock + d
    /\ UNCHANGED <<message_replies, waiting, reply_op>>
    /\ ReplyRest

\* `running_env = env` (lib.rs:630): the processes of the old Env are dropped with it.
\* The system, and with it the reply table, is shared by every Env (lib.rs:605, 628).
ReplaceEnv ==
    /\ waiting # {}
    /\ waiting' = {}
    /\ reply_op' = [op |-> "replace", key |-> 0, now |-> clock, result |-> NoResult]
    /\ UNCHANGED <<message_replies, clock>>
    /\ ReplyRest

NextReply ==
    \/ SendMessage
    \/ \E key \in FrameIds, value \in ReplyValues : WsReply(key, value)
    \/ \E key \in FrameIds : PollReply(key)
    \/ \E d \in ClockSteps : ClockTick(d)
    \/ ReplaceEnv

SpecReplyInit ==
    InitEmptyLayout /\ pixel = <<>> /\ call = IdleCall /\ InitSchedOff /\ InitProjOff /\ InitBusOff
SpecReply == SpecReplyInit /\ [][NextReply]_vars

\* A step of the named operation on the reply table.
ReplyStep(op) == reply_op' # reply_op /\ reply_op'.op = op

\* The three cases of poll_reply, on the table and the clock the call found.
PollCases ==
    [][ReplyStep("poll") =>
        LET key == reply_op'.key
            entry == message_replies[key][1]
            result == reply_op'.result
        IN  /\ entry.value # <<>> =>
                /\ result = Completed(entry.value)
                /\ message_replies' = remove(message_replies, key)
            /\ (entry.value = <<>> /\ clock > entry.expiry) =>
                /\ result = Completed(<<>>)
                /\ message_replies' = remove(message_replies, key)
            /\ (entry.value = <<>> /\ clock <= entry.expiry) =>
                /\ result = Pending
                /\ message_replies' = message_replies
       ]_vars

\* The expiry of an entry is the clock at send_message plus 1500 ms.
ExpiryAtSend ==
    [][ReplyStep("send") =>
        message_replies'[reply_op'.key] = <<ReplyEntry(clock + 1500, <<>>)>>]_vars

\* C14: poll_reply returns Completed(Some(v)) when the entry holds a value (expired or
\* not), Completed(None) when it holds none and the clock is strictly past the expiry,
\* which is the send time plus 1500 ms, and Pending otherwise; the two Completed cases
\* remove the entry and Pending leaves the table unchanged.
C14_PollReply == PollCases /\ ExpiryAtSend

\* A poll at the expiry itself is pending, and a value stored in an expired entry is
\* returned.
C14_Witness ==
    /\ reply_op.op = "poll"
    /\ reply_op.result = Pending
    /\ get(message_replies, reply_op.key) # <<>>
    /\ clock = message_replies[reply_op.key][1].expiry

\* C15: reply correlation is first-writer-wins.  A `__reply__` frame stores its body only
\* in an entry that exists and holds no value; a later frame for the same requestId never
\* overwrites the stored value, and a frame whose requestId has no entry creates none.
C15_FirstWriterWins ==
    [][ReplyStep("reply") =>
        LET key == reply_op'.key
            value == reply_op'.result.value
            found == get(message_replies, key)
        IN  /\ DOMAIN message_replies' = DOMAIN message_replies
            /\ \A k \in DOMAIN message_replies : k # key => message_replies'[k] = message_replies[k]
            /\ found = <<>> => get(message_replies', key) = <<>>
            /\ (found # <<>> /\ found[1].value # <<>>) => message_replies' = message_replies
            /\ (found # <<>> /\ found[1].value = <<>>) =>
                   message_replies'[key] = <<[found[1] EXCEPT !.value = value]>>
       ]_vars

\* A second frame with another body has arrived for an entry that keeps the first body.
C15_Witness ==
    /\ reply_op.op = "reply"
    /\ get(message_replies, reply_op.key) # <<>>
    /\ message_replies[reply_op.key][1].value # <<>>
    /\ message_replies[reply_op.key][1].value # reply_op.result.value

\* C16: no entry of the reply table is leaked: an entry that is in the table belongs to a
\* key some process still holds and will poll, poll_reply being the only operation that
\* removes an entry.
C16_NoLeak ==
    \A key \in DOMAIN message_replies : message_replies[key] # <<>> => key \in waiting

\* ------------------------------------------------------------------------
\* Properties of Motor.setPower
\* ------------------------------------------------------------------------

\* The request of cl is <group>.setPower on a bound motor group.
SetPowerCall(cl) ==
    /\ cl.type = "Syscall"
    /\ Len(cl.name) = 3
    /\ cl.name[1] = "Motor"
    /\ cl.name[2] \in DOMAIN motor_groups
    /\ cl.name[3] = "setPower"
GroupOf(cl) == motor_groups[cl.name[2]]
WrongCount(cl) == Len(cl.args) # Len(GroupOf(cl))
NonNumeric(cl) == {i \in 1..Len(cl.args) : cl.args[i].t # "num"}
BadPowerArgs(cl) == WrongCount(cl) \/ NonNumeric(cl) # {}

\* The handler returns on setPower with bad arguments: the key is completed once with an
\* error whose arity text is arityText, no duty has changed and no write is to follow.
RejectsBadPowers(arityText) ==
    (call.pc = "idle" /\ call'.pc # "idle" /\ SetPowerCall(call') /\ BadPowerArgs(call')) =>
        /\ call'.pc = "returned"
        /\ call'.status = "Handled"
        /\ call'.completions = 1
        /\ ~call'.reply.ok
        /\ duty' = duty
        /\ WrongCount(call') =>
               call'.reply.err = Msg(arityText, "Motor", call'.name[2], "setPower",
                                     Len(GroupOf(call')), Len(call'.args))
        /\ ~WrongCount(call') =>
               /\ call'.reply.err.text = "{}.{}.{} expected a number for arg {}, but got {:?}"
               /\ call'.reply.err.a = Min(NonNumeric(call'))

\* No set_duty of a setPower happens on arguments that were not all validated.
ValidatedBeforeWrites ==
    [](call.pc = "setPower" => (SetPowerCall(call) /\ ~BadPowerArgs(call)))

\* C17 (as stated): setPower with a wrong argument count or a non-numeric argument
\* completes the key with an error, the arity error reading `expected 2 args, got 1`,
\* and changes no motor's duty; all arguments are validated before the first write.
C17_BadArgsAsStated ==
    [][RejectsBadPowers("{}.{}.{} expected {} args, got {}")]_vars /\ ValidatedBeforeWrites

\* C17 (amended): as stated, with the arity error the code formats:
\* `Motor.<group>.setPower expected 2 args, but got 1`.
C17_BadArgsNoWrite ==
    [][RejectsBadPowers("{}.{}.{} expected {} args, but got {}")]_vars /\ ValidatedBeforeWrites

\* C17 witness: the two-motor group was given a number and then a string, and the handler
\* returned the error with every duty as it was.
C17_Witness ==
    /\ call.pc = "returned"
    /\ SetPowerCall(call)
    /\ Len(GroupOf(call)) = 2
    /\ Len(call.args) = 2
    /\ NonNumeric(call) = {2}
    /\ ~call.reply.ok
    /\ call.reply.err.a = 2

\* The duty pair set_power(power) leaves a motor with.
PowerSet(power) ==
    IF Duty(power) >= 0 THEN [positive |-> Duty(power), negative |-> 0]
    ELSE [positive |-> 0, negative |-> 0 - Duty(power)]
\* The members 1..n of the called group hold the duty of their own argument.
MembersSet(n) ==
    \A j \in 1..n : duty[GroupOf(call)[j]] = PowerSet(call.args[j])

\* C18: setPower on a group gives the i-th member the i-th value and writes the members
\* in declaration order, both legs of member i before any leg of member i+1; a single
\* motor is addressed as a group of size 1.
C18_GroupOrder ==
    /\ [](call.pc = "setPower" => MembersSet(call.idx - 1))
    /\ []((call.pc = "returned" /\ SetPowerCall(call) /\ call.reply.ok)
             => MembersSet(Len(GroupOf(call))))
    /\ [][\A m \in DOMAIN duty : duty'[m] # duty[m] =>
             /\ call.pc = "setPower"
             /\ m = GroupOf(call)[call.idx]
             /\ call'.pc = "setPower" => call'.idx = IF call.leg = 2 THEN call.idx + 1 ELSE call.idx
         ]_vars
    /\ [](\A m \in DOMAIN motors : m \in DOMAIN motor_groups /\ motor_groups[m] = <<m>>)

\* C18 witness: the second member of the two-motor group is being written, with a value
\* that differs from the first member's, which is already set.
C18_Witness ==
    /\ call.pc = "setPower"
    /\ Len(GroupOf(call)) = 2
    /\ call.idx = 2
    /\ call.leg = 2
    /\ call.args[1] # call.args[2]
    /\ duty[GroupOf(call)[1]] = PowerSet(call.args[1])
    /\ PowerSet(call.args[1]) # PowerSet(call.args[2])

\* An integer power and its value; the magnitude after clamping to [-255, 255].
IsInt(v) == v.t = "num" /\ v.h % 2 = 0
IntOf(v) == IF v.h >= 0 THEN v.h \div 2 ELSE 0 - ((0 - v.h) \div 2)
Clamped(q) == IF q < 0 - 255 THEN 0 - 255 ELSE IF q > 255 THEN 255 ELSE q
Abs(q) == IF q < 0 THEN 0 - q ELSE q
\* n / d rounded to the nearest integer, and rounded down (n >= 0, d > 0).
Rounded(n, d) == (2 * n + d) \div (2 * d)
Floored(n, d) == n \div d

\* The setPower that has returned Ok left every member given an integer power with the
\* active leg at the scaled magnitude, scaled as by the named rule, and the other leg at 0.
ScaledBy(rounds) ==
    (call.pc = "returned" /\ SetPowerCall(call) /\ call.reply.ok) =>
        \A j \in 1..Len(call.args) :
            IsInt(call.args[j]) =>
                LET q == Clamped(IntOf(call.args[j]))
                    d == IF rounds THEN Rounded(Abs(q) * 1023, 255)
                         ELSE Floored(Abs(q) * 1023, 255)
                IN  duty[GroupOf(call)[j]] =
                        IF q >= 0 THEN [positive |-> d, negative |-> 0]
                        ELSE [positive |-> 0, negative |-> d]

\* C19 (as stated): for an integer power p and max_duty 1023 the active leg's duty is
\* round(|p| * max_duty / 255) and the other leg's is 0, p being clamped to [-255, 255]
\* first.
C19_DutyRounded == ScaledBy(TRUE)

\* C19 (amended): the active leg's duty is |p| * max_duty / 255 rounded down (the i32
\* division of set_power truncates), the other leg's is 0, p being clamped first.
C19_DutyTruncated == ScaledBy(FALSE)

\* C19 witness: a motor was given 128 and stands at 513, where rounding gives 514, and a
\* motor given 350 stands at the full 1023.
C19_Witness ==
    /\ call.pc = "returned"
    /\ SetPowerCall(call)
    /\ call.reply.ok
    /\ \E j \in 1..Len(call.args) :
           /\ IsInt(call.args[j])
           /\ IntOf(call.args[j]) = 128
           /\ duty[GroupOf(call)[j]] = [positive |-> 513, negative |-> 0]
           /\ Rounded(128 * 1023, 255) = 514

\* ------------------------------------------------------------------------
\* POST /wifi (lib.rs:359-403) on the store (storage.rs)
\* ------------------------------------------------------------------------

\* A string of n bytes.
Str(n, byte) == [i \in 1..n |-> byte]
\* Request bodies: the lengths on both sides of each limit, and one body that is no
\* WifiConfig (its kind is no variant of WifiKind).
Ssids == {Str(n, "s") : n \in {1, 2, 31, 32}}
Passes == {Str(n, "p") : n \in {7, 8, 63, 64}}
WifiBodies ==
    {[kind |-> k, ssid |-> ssid, pass |-> pass] :
        k \in {"AccessPoint", "Client"}, ssid \in Ssids, pass \in Passes}
    \cup {[kind |-> "Station", ssid |-> Str(2, "s"), pass |-> Str(8, "p")]}

\* serde_json::from_slice::<WifiConfig>
from_slice(body) == body.kind \in {"AccessPoint", "Client"}
\* `(2..32).contains(&ssid.len())` and `(8..64).contains(&pass.len())`
ssid_len_closed(ssid) == Len(ssid) >= 2 /\ Len(ssid) <= 32
ssid_len_ok(ssid) == Len(ssid) >= 2 /\ Len(ssid) < 32
pass_len_ok(pass) == Len(pass) >= 8 /\ Len(pass) < 64
\* The entries the two arms of `match kind` write.
SsidKey(kind) == IF kind = "AccessPoint" THEN "wapssid" ELSE "wclssid"
PassKey(kind) == IF kind = "AccessPoint" THEN "wappass" ELSE "wclpass"

\* WifiConfigHandler::handle.  ok1, ok2: whether the store takes the first and the second
\* write; a write it refuses leaves the handler through `?`, which the server answers 500.
WifiConfigHandler(body, ok1, ok2) ==
    /\ IF ~from_slice(body) \/ ~ssid_len_ok(body.ssid) \/ ~pass_len_ok(body.pass)
       THEN /\ ok1 /\ ok2    \* the store is not reached
            /\ nvs' = nvs
            /\ wifi_op' = [route |-> "/wifi", body |-> body, status |-> 400, nvsOk |-> TRUE]
       ELSE LET first == [nvs EXCEPT ![SsidKey(body.kind)] = set(@, body.ssid)]
                second == [first EXCEPT ![PassKey(body.kind)] = set(@, body.pass)]
            IN  /\ nvs' = IF ~ok1 THEN nvs ELSE IF ~ok2 THEN first ELSE second
                /\ ok1 \/ ok2    \* after a refused first write the second is not tried
                /\ wifi_op' = [route |-> "/wifi", body |-> body,
                               status |-> IF ok1 /\ ok2 THEN 200 ELSE 500,
                               nvsOk |-> ok1 /\ ok2]
    /\ UNCHANGED <<bindVars, callVars, pulseVars, inVars, schedVars, projVars, replyVars, batchVars, outVars>>

NextWifi == \E body \in WifiBodies, ok1 \in BOOLEAN, ok2 \in BOOLEAN : WifiConfigHandler(body, ok1, ok2)

SpecWifiInit ==
    InitEmptyLayout /\ pixel = <<>> /\ call = IdleCall /\ InitSchedOff /\ InitProjOff /\ InitBusOff
SpecWifi == SpecWifiInit /\ [][NextWifi]_vars

\* C20: POST /wifi accepts only requests whose ssid length is in [2,32) and whose pass
\* length is in [8,64); on acceptance it responds 200 and writes exactly the ssid/pass
\* pair of the requested kind, leaving the other pair unchanged; on a length violation or
\* an unparsable body it responds 400 and leaves all stored keys unchanged.
C20_WifiConfig ==
    [][(wifi_op' # wifi_op \/ nvs' # nvs) =>
        LET body == wifi_op'.body
            valid == /\ body.kind \in {"AccessPoint", "Client"}
                     /\ Len(body.ssid) \in 2..31
                     /\ Len(body.pass) \in 8..63
            own == IF body.kind = "AccessPoint" THEN {"wapssid", "wappass"}
                   ELSE {"wclssid", "wclpass"}
        IN  /\ wifi_op'.status = 200 =>
                /\ valid
                /\ nvs'[CHOOSE k \in own : k \in {"wapssid", "wclssid"}] = <<body.ssid>>
                /\ nvs'[CHOOSE k \in own : k \in {"wappass", "wclpass"}] = <<body.pass>>
                /\ \A k \in NvsKeys \ own : nvs'[k] = nvs[k]
            /\ (valid /\ wifi_op'.nvsOk) => wifi_op'.status = 200
            /\ ~valid => (wifi_op'.status = 400 /\ nvs' = nvs)
            /\ project' = project
       ]_vars

\* C20 witness: the client pair was accepted with the longest lengths allowed, and the
\* access point pair stored before it is still there.
C20_Witness ==
    /\ wifi_op.route = "/wifi"
    /\ wifi_op.status = 200
    /\ wifi_op.body.kind = "Client"
    /\ Len(wifi_op.body.ssid) = 31
    /\ Len(wifi_op.body.pass) = 63
    /\ nvs["wclssid"] = <<wifi_op.body.ssid>>
    /\ nvs["wclpass"] = <<wifi_op.body.pass>>
    /\ nvs["wapssid"] = <<Str(2, "s")>>
    /\ nvs["wappass"] = <<Str(8, "p")>>

\* ------------------------------------------------------------------------
\* The store and the handlers that write it (storage.rs; lib.rs:243-267, 327-344, 405-430)
\* ------------------------------------------------------------------------

\* impl_storage_entry!: the entries in the order of the list, which is the order clear_all
\* clears them in.
Entries == <<"wapssid", "wappass", "wclssid", "wclpass", "periph", "proj">>
\* Entry::get: Ok(None) for an absent key.
get_entry(kv, proj, key) == IF key = "proj" THEN proj ELSE kv[key]
\* Entry::clear on the first n entries of the list.
clear_first(kv, n) ==
    [k \in DOMAIN kv |-> IF \E i \in 1..n : Entries[i] = k THEN <<>> ELSE kv[k]]

\* A request body that is text (String::from_utf8 succeeds) or is not.
TextBody(utf8, text) == [kind |-> IF utf8 THEN "utf8" ELSE "bytes", ssid |-> text, pass |-> <<>>]
TextBodies == {TextBody(TRUE, Str(2, "x")), TextBody(FALSE, Str(1, "y"))}

\* SetPeripheralsHandler::handle and ServerHandler::handle: the body is stored as it is.
SetTextHandler(route, key, body, setOk) ==
    /\ IF body.kind # "utf8"
       THEN /\ setOk
            /\ nvs' = nvs
            /\ wifi_op' = [route |-> route, body |-> body, status |-> 400, nvsOk |-> TRUE]
       ELSE /\ nvs' = IF setOk THEN [nvs EXCEPT ![key] = set(@, body.ssid)] ELSE nvs
            /\ wifi_op' = [route |-> route, body |-> body,
                           status |-> IF setOk THEN 200 ELSE 500, nvsOk |-> setOk]
    /\ UNCHANGED <<bindVars, callVars, pulseVars, inVars, schedVars, projVars, replyVars, batchVars, outVars>>
SetPeripheralsHandler(body, setOk) == SetTextHandler("/peripherals", "periph", body, setOk)
ServerHandler(body, setOk) == SetTextHandler("/server", "netsblox_server", body, setOk)

\* WipeHandler::handle: clear_all clears the entries one by one and returns at the first
\* clear the store refuses (`?`). cleared: how many clears succeeded.
WipeHandler(cleared) ==
    /\ nvs' = clear_first(nvs, cleared)
    /\ project' = IF cleared = Len(Entries) THEN <<>> ELSE project
    /\ wifi_op' = [route |-> "/wipe", body |-> TextBody(TRUE, <<>>),
                   status |-> IF cleared = Len(Entries) THEN 200 ELSE 500,
                   nvsOk |-> cleared = Len(Entries)]
    /\ UNCHANGED <<running_env, env_inputs, output, runtime_errors, pulls, nextLine>>
    /\ UNCHANGED <<bindVars, callVars, pulseVars, inVars, schedVars, replyVars, batchVars, outVars>>

\* The bodies of /wifi the store is filled with.
StoredWifiBodies ==
    {[kind |-> k, ssid |-> Str(2, "s"), pass |-> Str(8, "p")] : k \in {"AccessPoint", "Client"}}

NextStore ==
    \/ \E body \in StoredWifiBodies, ok1 \in BOOLEAN, ok2 \in BOOLEAN :
           WifiConfigHandler(body, ok1, ok2)
    \/ \E body \in TextBodies, setOk \in BOOLEAN : SetPeripheralsHandler(body, setOk)
    \/ \E body \in TextBodies, setOk \in BOOLEAN : ServerHandler(body, setOk)
    \/ \E cleared \in 0..Len(Entries) : WipeHandler(cleared)

\* The board has run before: a project may be stored.
SpecStore == SpecSchedInit /\ [][NextStore]_vars

\* The keys the specification names, and what get() returns for each.
KnownKeys == NvsKeys \cup {"proj"}

\* C21: after clear_all (POST /wipe) returns Ok, get() returns None for each of
\* wifi_ap_ssid, wifi_ap_pass, wifi_client_ssid, wifi_client_pass, netsblox_server,
\* peripherals and project, whatever set calls preceded it.
C21_WipeClearsAll ==
    (wifi_op.route = "/wipe" /\ wifi_op.status = 200) =>
        \A key \in KnownKeys : get_entry(nvs, project, key) = <<>>

\* ------------------------------------------------------------------------
\* Boot of the stored project (lib.rs:607-619)
\* ------------------------------------------------------------------------

\* What the flash holds in `proj` when the board starts: nothing, a project that loads,
\* or one this firmware does not load.
StoredAtBoot ==
    {<<>>, <<"<room>">>, <<"<broken">>, <<"<norole>">>, <<"<tworoles>">>, <<"<nocompile>">>}

\* Executor::run has mounted the routes and is about to build the first Env.
InitBoot ==
    /\ commands = <<>>
    /\ inflight = {}
    /\ running = TRUE
    /\ spc = "boot"
    /\ command = <<>>
    /\ enqueued = <<>>
    /\ applied = <<>>
    /\ nextId = 0
    /\ project \in StoredAtBoot
    /\ running_env = ""
    /\ env_inputs = <<>>
    /\ output = <<[id |-> 0, lines |-> BootingMsg]>>
    /\ runtime_errors = <<>>
    /\ pulls = [output |-> <<>>, errors |-> <<>>, last |-> <<>>, prev |-> 0, upto |-> 0]
    /\ nextLine = 1

\* `xml.as_deref().unwrap_or(EMPTY_PROJECT)`, `open_project(&xml).unwrap()`,
\* `get_env(..).unwrap()`, Input::Start and the starting message.
BootProject ==
    /\ spc = "boot"
    /\ LET xml == IF project = <<>> THEN EmptyProject ELSE project[1] IN
        IF ~open_project(xml).ok \/ get_env(xml) = "panic"
        THEN /\ spc' = "panicked"
             /\ UNCHANGED projVars
        ELSE /\ spc' = "pop"
             /\ running_env' = xml
             /\ env_inputs' = input(from_init, "Start")
             /\ output' = tee_println(output, nextLine, StartingMsg)
             /\ nextLine' = nextLine + 1
             /\ UNCHANGED <<project, runtime_errors, pulls>>
    /\ UNCHANGED <<commands, inflight, running, command, enqueued, applied, nextId>>
    /\ SchedRest

NextBoot ==
    \/ BootProject
    \/ SchedPop
    \/ SchedApply
    \/ SchedCheckRunning
    \/ \E res \in {"print", "error"} : SchedStep(res)
    \/ SchedBatch
    \/ PullStatus
    \/ TogglePaused

SpecBootInit == InitEmptyLayout /\ pixel = <<>> /\ call = IdleCall /\ InitBoot /\ InitBusOff
SpecBoot == SpecBootInit /\ [][NextBoot]_vars

\* C22: when the stored project fails to load at boot (parse error, no roles, multiple
\* roles or compile error) the built-in empty project is substituted and the scheduler
\* loop starts: boot does not abort.
C22_BootSubstitutesEmpty ==
    [][(spc = "boot" /\ spc' # "boot" /\ project # <<>> /\ FailsToLoad(project[1])) =>
        (spc' = "pop" /\ running_env' = EmptyProject)]_vars

\* ------------------------------------------------------------------------
\* The step batch, step by step (lib.rs:653-678)
\* ------------------------------------------------------------------------

\* const STEP_BATCH_SIZE: usize = 128; const STEPS_BETWEEN_GC: usize = 1024
STEP_BATCH_SIZE == 128
STEPS_BETWEEN_GC == 1024
\* What project.step returns, as far as the loop looks: an error, a step that runs a
\* Print command, or anything else.
StepResults == {"quiet", "print", "error"}

\* The loop index after a step: a `for` that leaves the batch at the first error.
next_index_break(i, res) == IF res = "error" THEN STEP_BATCH_SIZE ELSE i + 1
\* `for _ in 0..STEP_BATCH_SIZE`: the index after a step, whatever it returned.
next_index(i, res) == i + 1

\* One iteration of the `for`: project.step, the error report if it failed,
\* `steps_since_gc += 1`.
BatchStep(res) ==
    /\ spc = "batch"
    /\ batch_i < STEP_BATCH_SIZE
    /\ IF res = "quiet" THEN UNCHANGED projVars ELSE StepRings(res)
    /\ batch_i' = next_index(batch_i, res)
    /\ steps_since_gc' = steps_since_gc + 1
    /\ step_res' = res
    /\ UNCHANGED schedVars
    /\ UNCHANGED <<bindVars, callVars, pulseVars, inVars, replyVars, wifiVars, outVars>>

\* A collection that is due as soon as the counter reaches the constant.
gc_due_at(n) == n >= STEPS_BETWEEN_GC
\* `if steps_since_gc > STEPS_BETWEEN_GC`
gc_due(n) == n > STEPS_BETWEEN_GC

\* The `for` is over: `if steps_since_gc > STEPS_BETWEEN_GC { steps_since_gc = 0; .. }`
\* and the loop starts its next iteration.
BatchEnd ==
    /\ spc = "batch"
    /\ batch_i >= STEP_BATCH_SIZE
    /\ spc' = "pop"
    /\ batch_i' = 0
    /\ steps_since_gc' = IF gc_due(steps_since_gc) THEN 0 ELSE steps_since_gc
    /\ UNCHANGED step_res
    /\ UNCHANGED projVars
    /\ UNCHANGED <<commands, inflight, running, command, enqueued, applied, nextId>>
    /\ UNCHANGED <<bindVars, callVars, pulseVars, inVars, replyVars, wifiVars, outVars>>

NextBatch ==
    \/ SchedPop
    \/ SchedApply
    \/ SchedCheckRunning
    \/ \E res \in StepResults : BatchStep(res)
    \/ BatchEnd
    \/ TogglePaused

SpecBatch == SpecSchedInit /\ [][NextBatch]_vars

\* A step of the batch has been made and returned res.
Stepped(res) == batch_i' # batch_i /\ spc = "batch" /\ spc' = "batch" /\ step_res' = res

\* C23: a guest runtime error does not stop the VM. When project.step returns Error
\* inside a batch, exactly one single-line JSON entry is appended to the errors ring and
\* one `>>> error <cause>` message to the output ring, the remaining steps of the
\* 128-step batch are still executed, and the running flag is unchanged.
C23_ErrorKeepsStepping ==
    /\ [][Stepped("error") =>
            /\ Len(runtime_errors') = Min({Len(runtime_errors) + 1, RingCapacity})
            /\ Len(LastMessage(runtime_errors').lines) = 1
            /\ LastMessage(runtime_errors').id = nextLine
            /\ \A k \in 1..(Len(runtime_errors') - 1) :
                   \E j \in 1..Len(runtime_errors) : runtime_errors'[k] = runtime_errors[j]
            /\ LastMessage(output') = [id |-> nextLine, lines |-> <<"", ">>> error {}", "">>]
            /\ nextLine' = nextLine + 1
            /\ running' = running
            /\ batch_i' = batch_i + 1
        ]_vars
    /\ [][(spc = "batch" /\ spc' # "batch") => (batch_i = 128 /\ running' = running)]_vars
    /\ [][(spc = "batch" /\ spc' = "batch" /\ batch_i' # batch_i) => batch_i' = batch_i + 1]_vars

\* C23 witness: a batch has made all its 128 steps, one of the earlier ones having failed.
C23_Witness ==
    /\ spc = "batch"
    /\ batch_i = 128
    /\ Len(runtime_errors) > 0
    /\ step_res # "error"

\* A project.step is made in this step of the loop.
StepMade == batch_i' = batch_i + 1

\* C30 (as stated): while running is false the scheduler executes no project.step and
\* does not advance steps_since_gc.
C30_NoStepWhilePaused ==
    [][~running => (~StepMade /\ steps_since_gc' <= steps_since_gc)]_vars

\* C30 (amended): steps are made, and steps_since_gc advanced, only inside a batch; a
\* batch is entered only by the check that read running = true, which comes after that
\* iteration's command was drained; an iteration whose check read running = false goes
\* back to the queue without a step. A running flag cleared during a batch does not stop
\* the steps left in that batch.
C30_StepsOnlyAfterCheck ==
    /\ [][(StepMade \/ steps_since_gc' > steps_since_gc) => (spc = "batch" /\ spc' = "batch")]_vars
    /\ [][(spc # "batch" /\ spc' = "batch") => (spc = "check" /\ running)]_vars
    /\ [][(spc = "check" /\ spc' # "check" /\ ~running) =>
             (spc' = "pop" /\ UNCHANGED <<batch_i, steps_since_gc>>)]_vars
    /\ [][(spc # "check" /\ spc' = "check") => (spc \in {"apply", "persist"} /\ command' = <<>>)]_vars

\* C30 witness: the project has been stepped, the flag was then cleared, and the
\* iteration that read it has gone back to the queue with the counters as they were.
C30_Witness ==
    /\ ~running
    /\ spc = "pop"
    /\ steps_since_gc > 0
    /\ batch_i = 0
    /\ step_res # "none"

\* ------------------------------------------------------------------------
\* The outgoing path of the message bus (system.rs:92-202, 336-363)
\* ------------------------------------------------------------------------

\* Calls of send_message without a reply and of send_reply made during one run.
MaxMessages == 1
\* Pong and set-uuid frames the inbound callback sends during one run.
MaxControlFrames == 1

\* The frame the shaping thread builds from a request (the json! of each variant), and
\* the frames of the inbound callback. n is kept to tell the frames apart.
Shaped(m) ==
    [type |-> "message", n |-> m.n,
     msgType |-> IF m.variant = "Reply" THEN "__reply__" ELSE "msg",
     requestId |-> m.request_id]
ControlFrame(type) == [type |-> type, n |-> 0, msgType |-> "", requestId |-> 0]
\* A thread that has panicked in an unwrap holds this in place of a frame.
Dead == [type |-> "panicked", n |-> 0, msgType |-> "", requestId |-> 0]

OutRest == UNCHANGED <<bindVars, callVars, pulseVars, inVars, schedVars, projVars, replyVars, wifiVars, batchVars>>

\* send_message(.., expect_reply = false) and send_reply. The shaping thread holds the
\* receiver: once it is gone the send's unwrap aborts the caller.
SendPlain(variant) ==
    /\ Len(sent) < MaxMessages + Len(message_replies)
    /\ shaping # <<Dead>>
    /\ MessageSend(variant, 0)
    /\ OutRest

\* The shaping thread: `while let Ok(request) = msg_out_receiver.recv()`.
ShapeRecv ==
    /\ shaping = <<>>
    /\ msg_out # <<>>
    /\ shaping' = <<Head(msg_out)>>
    /\ msg_out' = Tail(msg_out)
    /\ UNCHANGED <<ws_chan, sending, wire, sent>>
    /\ OutRest

\* `ws_sender.send(msg.to_string()).unwrap()`: aborts the thread when the sender thread,
\* which holds the receiver, is gone.
ShapeSend ==
    /\ shaping # <<>>
    /\ shaping # <<Dead>>
    /\ IF sending = <<Dead>>
       THEN shaping' = <<Dead>> /\ UNCHANGED ws_chan
       ELSE shaping' = <<>> /\ ws_chan' = channel_send(ws_chan, Shaped(shaping[1]))
    /\ UNCHANGED <<msg_out, sending, wire, sent>>
    /\ OutRest

\* ws_on_msg on Connected and on a ping: `ws_sender_clone.send(..).unwrap()`.
ControlFramesSent ==
    Cardinality({i \in 1..Len(ws_chan) : ws_chan[i].type # "message"})
    + Cardinality({i \in 1..Len(wire) : wire[i].type # "message"})
    + (IF sending # <<>> /\ sending # <<Dead>> /\ sending[1].type # "message" THEN 1 ELSE 0)
WsControl(type) ==
    /\ ControlFramesSent < MaxControlFrames
    /\ sending # <<Dead>>
    /\ ws_chan' = channel_send(ws_chan, ControlFrame(type))
    /\ UNCHANGED <<msg_out, shaping, sending, wire, sent>>
    /\ OutRest

\* The sender thread: `while let Ok(packet) = ws_receiver.recv()`.
SenderRecv ==
    /\ sending = <<>>
    /\ ws_chan # <<>>
    /\ sending' = <<Head(ws_chan)>>
    /\ ws_chan' = Tail(ws_chan)
    /\ UNCHANGED <<msg_out, shaping, wire, sent>>
    /\ OutRest

\* `ws_client.send(FrameType::Text(false), packet.as_bytes()).unwrap()`
SenderSend(sendOk) ==
    /\ sending # <<>>
    /\ sending # <<Dead>>
    /\ IF sendOk
       THEN wire' = Append(wire, sending[1]) /\ sending' = <<>>
       ELSE wire' = wire /\ sending' = <<Dead>>
    /\ UNCHANGED <<msg_out, ws_chan, shaping, sent>>
    /\ OutRest

NextOut ==
    \/ SendMessage
    \/ \E variant \in {"Normal", "Reply"} : SendPlain(variant)
    \/ ShapeRecv
    \/ ShapeSend
    \/ \E type \in {"pong", "set-uuid"} : WsControl(type)
    \/ SenderRecv
    \/ \E sendOk \in BOOLEAN : SenderSend(sendOk)

SpecOut == SpecReplyInit /\ [][NextOut]_vars

\* The numbers of the scheduler's messages among the frames of q, in the order of q.
MessageNs(q) ==
    LET msgs == SelectSeq(q, LAMBDA f : f.type = "message") IN
    [i \in 1..Len(msgs) |-> msgs[i].n]
Alive(held) == IF held = <<Dead>> THEN <<>> ELSE held

\* C24: outgoing messages preserve order. The frames of the scheduler's send_message and
\* send_reply calls are handed to the web-socket client in the order of the calls,
\* through the shaping thread and the sender thread, whatever pong and set-uuid frames
\* the inbound callback interleaves: the frames on the wire are those of the first calls,
\* each shaped from its call, and what is still on the way follows in call order.
C24_OutgoingOrder ==
    /\ \A i \in 1..Len(MessageNs(wire)) : MessageNs(wire)[i] = i
    /\ \A i \in 1..Len(wire) :
           wire[i].type = "message" => wire[i] = Shaped(sent[wire[i].n])
    /\ LET onTheWay == MessageNs(Alive(sending)) \o MessageNs(ws_chan)
                       \o [i \in 1..Len(Alive(shaping)) |-> Alive(shaping)[i].n]
                       \o [i \in 1..Len(msg_out) |-> msg_out[i].n]
       IN  \A i \in 1..Len(onTheWay) :
               /\ onTheWay[i] > Len(MessageNs(wire))
               /\ i > 1 => onTheWay[i] > onTheWay[i - 1]

\* C24 witness: three messages, Blocking ones and a Reply, are on the wire with a pong
\* between two of them.
C24_Witness ==
    /\ Len(MessageNs(wire)) >= 3
    /\ \E i, j, k \in 1..Len(wire) :
           /\ i < j /\ j < k
           /\ wire[i].type = "message"
           /\ wire[j].type = "pong"
           /\ wire[k].type = "message"
    /\ {sent[i].variant : i \in 1..Len(sent)} = {"Blocking", "Reply"}

\* ------------------------------------------------------------------------
\* HCSR04: one distance measurement (platform.rs:296-310, 358-366)
\* ------------------------------------------------------------------------

\* get_distance: `Duration::from_millis(50)`
PulseTimeout == 50
\* An edge the echo never makes within the model's horizon.
Never == 3 * PulseTimeout
\* The instants, in ms after the trigger, at which the echo rises and falls.
EchoTimes == {0, 1, 20, PulseTimeout - 1, PulseTimeout, PulseTimeout + 1, Never}
\* The echo of one measurement: <<rise, fall>>, the pulse possibly never ending.
Echoes == {e \in EchoTimes \X EchoTimes : e[1] < e[2] \/ e[2] = Never}
\* The instants at which a measurement starts.
StartTimes == {0, 7}

\* pin.get_level() at instant t: High from the rise up to the fall.
EchoHigh(p, t) == p.total_start + p.rise <= t /\ t < p.total_start + p.fall

\* `total_start.elapsed()` read at instant t; both loops of measure_pulse use it.
elapsed_of_wait(p, t) == t - p.pulse_start
elapsed(p, t) == t - p.total_start

\* `.map(|x| x.as_micros()).unwrap_or(0)` and `duration as f64 * 0.01715`
TimedOut(p, t) == [p EXCEPT !.pos = "done", !.now = t, !.res = [tag |-> "ok", val |-> CmV(0).h]]
Measured(p) ==
    [p EXCEPT !.pos = "done",
              !.res = [tag |-> "ok", val |-> CmV((p.now - p.pulse_start) * 1000).h]]

PulseRest == UNCHANGED <<bindVars, callVars, schedVars, projVars,
                         replyVars, wifiVars, batchVars, outVars, inVars>>

\* get_distance up to the call of measure_pulse: the trigger is raised for 10 us and
\* lowered (either write may fail: `?`), then `total_start = Instant::now()`.
GetDistance(start, echo, trigOk) ==
    /\ pulse.pos \in {"idle", "done"}
    /\ pulse' = IF ~trigOk
                THEN [IdlePulse EXCEPT !.pos = "done", !.res = [tag |-> "err", val |-> 0]]
                ELSE [IdlePulse EXCEPT !.pos = "rise", !.now = start, !.total_start = start,
                                       !.pulse_start = start, !.rise = echo[1], !.fall = echo[2]]
    /\ PulseRest

\* One turn of `while pin.get_level() != level { if total_start.elapsed() > timeout
\* { return None } }`; a turn takes one ms. Leaving the loop sets pulse_start.
WaitRise ==
    /\ pulse.pos = "rise"
    /\ pulse' = IF EchoHigh(pulse, pulse.now)
                THEN [pulse EXCEPT !.pos = "fall", !.pulse_start = pulse.now]
                ELSE IF elapsed(pulse, pulse.now + 1) > PulseTimeout
                     THEN TimedOut(pulse, pulse.now + 1)
                     ELSE [pulse EXCEPT !.now = pulse.now + 1]
    /\ PulseRest

\* One turn of `while pin.get_level() == level { ... }`; leaving the loop returns
\* `Some(pulse_start.elapsed())`.
WaitFall ==
    /\ pulse.pos = "fall"
    /\ pulse' = IF ~EchoHigh(pulse, pulse.now)
                THEN Measured(pulse)
                ELSE IF elapsed(pulse, pulse.now + 1) > PulseTimeout
                     THEN TimedOut(pulse, pulse.now + 1)
                     ELSE [pulse EXCEPT !.now = pulse.now + 1]
    /\ PulseRest

NextPulse ==
    \/ \E start \in StartTimes, echo \in Echoes, trigOk \in BOOLEAN :
          GetDistance(start, echo, trigOk)
    \/ WaitRise
    \/ WaitFall

SpecPulseInit ==
    InitEmptyLayout /\ pixel = <<>> /\ call = IdleCall /\ InitSchedOff /\ InitProjOff /\ InitBusOff
SpecPulse == SpecPulseInit /\ [][NextPulse]_vars

\* C26: HCSR04.getDistance always terminates: a measurement never runs past the 50 ms
\* budget, counted once from its start over both waits. When the echo has not risen, or
\* has risen but not fallen, by the end of the budget the result is 0; otherwise it is
\* the length of the high pulse in microseconds times 0.01715 (kept as us * 1715).
C26_GetDistance ==
    /\ pulse.pos \in {"rise", "fall"} => elapsed(pulse, pulse.now) <= PulseTimeout
    /\ pulse.pos = "done" => elapsed(pulse, pulse.now) <= PulseTimeout + 1
    /\ (pulse.pos = "done" /\ pulse.res.tag = "ok") =>
          pulse.res.val = IF pulse.rise <= PulseTimeout /\ pulse.fall <= PulseTimeout
                          THEN (pulse.fall - pulse.rise) * 1000 * 1715
                          ELSE 0

\* C26 witness: the echo rose just inside the budget and never fell; the measurement
\* ended with 0 right after the budget, not a second budget later.
C26_Witness ==
    /\ pulse.pos = "done"
    /\ pulse.res = [tag |-> "ok", val |-> 0]
    /\ pulse.rise = PulseTimeout - 1
    /\ pulse.fall = Never
    /\ pulse.total_start = 7
    /\ pulse.now = 7 + PulseTimeout + 1

\* ------------------------------------------------------------------------
\* Digital pins and their `negated` flag (platform.rs:334-352)
\* ------------------------------------------------------------------------

DigitalRequests == {r \in RequestsOfShape : r.name[1] \in {"DigitalIn", "DigitalOut"}}

\* A request that reaches the pin of a bound handle: DigitalIn.get with no argument,
\* DigitalOut.set with one bool whose write succeeds.
GetsPin(req) ==
    /\ req.type = "Syscall" /\ Len(req.name) = 3
    /\ req.name[1] = "DigitalIn" /\ req.name[3] = "get"
    /\ contains_key(digital_ins, req.name[2])
    /\ req.args = <<>>
SetsPin(req, env) ==
    /\ req.type = "Syscall" /\ Len(req.name) = 3
    /\ req.name[1] = "DigitalOut" /\ req.name[3] = "set"
    /\ contains_key(digital_outs, req.name[2])
    /\ Len(req.args) = 1 /\ req.args[1].t = "bool"
    /\ env.hwOk

Xor(a, b) == (a /\ ~b) \/ (~a /\ b)

\* C27: DigitalIn.get replies pin_high XOR negated, and DigitalOut.set(b) drives the
\* pin High exactly when b XOR negated, for either value of the handle's flag.
C27_NegatedXor ==
    [][\A req \in DigitalRequests, env \in Envs :
          Syscall(req, env) =>
             /\ GetsPin(req) =>
                   call'.reply = ReplyOk(BoolV(Xor(env.high, digital_ins[req.name[2]].negated)))
             /\ SetsPin(req, env) =>
                   (level'[req.name[2]] = "High"
                       <=> Xor(req.args[1].b, digital_outs[req.name[2]].negated))]_vars

\* C27 witness: set(false) on a negated output has driven the pin High.
C27_Witness ==
    /\ call.pc = "returned"
    /\ call.name = <<"DigitalOut", "a", "set">>
    /\ call.args = <<BoolV(FALSE)>>
    /\ contains_key(digital_outs, "a")
    /\ digital_outs["a"].negated
    /\ level["a"] = "High"

\* ------------------------------------------------------------------------
\* The running flag and the commands (lib.rs:311-325, 624-654)
\* ------------------------------------------------------------------------

\* The step applies command c: the arm of the loop that handles it has ended.
Applies(c) == applied' = Append(applied, c)
LastApplied == applied[Len(applied)]

\* C31: applying Input(Start) sets running = true; applying Input(Stop) or a SetProject
\* (loaded or refused) leaves the flag as it was; and the flag goes from true to false
\* only in a step of POST /toggle-paused, which touches nothing else.
C31_StartUnpauses ==
    [][/\ \A c \in {command[i] : i \in DOMAIN command} :
             Applies(c) =>
                IF c.cmd = "Input" /\ c.arg = "Start" THEN running' = TRUE
                ELSE running' = running
       /\ spc' # spc => (running' = running \/ running')
       /\ (running /\ ~running') =>
             UNCHANGED <<commands, inflight, spc, command, enqueued, applied, nextId, projVars>>
      ]_vars

\* C31 witness: an Input(Stop) and then an Input(Start) were applied, the loop has just
\* left the arm of the latter and reads the flag as true.
C31_Witness ==
    /\ spc = "check"
    /\ Len(applied) >= 2
    /\ LastApplied.cmd = "Input" /\ LastApplied.arg = "Start"
    /\ applied[Len(applied) - 1].arg = "Stop"
    /\ running

\* ------------------------------------------------------------------------
\* The batch and the collection (lib.rs:51-54, 656-679)
\* ------------------------------------------------------------------------

\* The counter between batches is a multiple of 128 up to 1024; inside a batch it is
\* that plus the steps made so far.
GcCounterOk ==
    /\ steps_since_gc <= 1152
    /\ batch_i <= 128
    /\ \E n \in 0..8 : steps_since_gc = 128 * n + batch_i
\* The batch ends: it has made 128 steps, and the arena is collected (the counter goes
\* back to 0) exactly when the batch was the 9th since the last collection.
BatchEndStep ==
    (spc = "batch" /\ spc' # "batch") =>
        /\ batch_i = 128
        /\ steps_since_gc' = IF steps_since_gc = 1152 THEN 0 ELSE steps_since_gc
        /\ steps_since_gc > 1024 <=> steps_since_gc = 1152

\* C32: each running loop iteration makes exactly 128 steps; the arena is collected
\* after a batch iff steps_since_gc > 1024, which resets the counter: that is after every
\* 9th batch, at 1152 steps and not at 1024, and the counter never exceeds 1152.
C32_GcEveryNinthBatch == [](GcCounterOk) /\ [][BatchEndStep]_vars

\* C32 witness: the 9th batch since the last collection has made its last step.
C32_Witness ==
    /\ spc = "batch"
    /\ batch_i = 128
    /\ steps_since_gc = 1152

\* ------------------------------------------------------------------------
\* Inbound frames: ws_on_msg, `message` branch (system.rs:103-154)
\* ------------------------------------------------------------------------

\* Text frames of type "message" handed to ws_on_msg during one run.
MaxFrames == 2
\* The frames: msgType and content missing, of the wrong JSON type or as expected (a
\* reply or not); content.body; requestId and srcId missing, of another type or strings.
Frames ==
    [msgType : {NoField, OtherField, StringField("__reply__"), StringField("hello")},
     content : {"absent", "other", "object"},
     body : {NoField, StringField("42")},
     requestId : {NoField, OtherField, IdField(1), IdField(MaxRequests + 1)},
     srcId : {NoField, OtherField, StringField("peer")}]

\* IncomingMessage { msg_type, values, reply_key } (the values play no part here).
IncomingMessage(msg_type, reply_key) == [msg_type |-> msg_type, reply_key |-> reply_key]
InternReplyKey(src_id, request_id) == [src_id |-> src_id, request_id |-> request_id]

\* A match that queues the message without a key when the pair is not two strings.
intern_reply_key_lenient(frame) ==
    IF frame.requestId.str /\ frame.srcId.str
    THEN [drop |-> FALSE, key |-> <<InternReplyKey(frame.srcId.text, frame.requestId.id)>>]
    ELSE [drop |-> FALSE, key |-> <<>>]
\* `match msg.contains_key("requestId") { true => match (srcId, requestId) { (String,
\* String) => Some(..), _ => return }, false => None }`
intern_reply_key(frame) ==
    IF ~frame.requestId.has THEN [drop |-> FALSE, key |-> <<>>]
    ELSE IF frame.srcId.str /\ frame.requestId.str
         THEN [drop |-> FALSE, key |-> <<InternReplyKey(frame.srcId.text, frame.requestId.id)>>]
         ELSE [drop |-> TRUE, key |-> <<>>]

InRest == UNCHANGED <<bindVars, callVars, schedVars, projVars, wifiVars, batchVars,
                      outVars, pulseVars>>

\* ws_on_msg on a text frame whose "type" is "message".
WsMessage(frame) ==
    /\ ws_frame.n < MaxFrames
    /\ LET shaped == frame.msgType.str /\ frame.content = "object"
           reply == shaped /\ frame.msgType.text = "__reply__"
           found == reply /\ frame.body.has /\ frame.requestId.str
                    /\ get(message_replies, frame.requestId.id) # <<>>
           k == intern_reply_key(frame)
           queued == shaped /\ ~reply /\ ~k.drop
       IN  /\ message_replies' =
                 IF found
                 THEN [message_replies EXCEPT
                          ![frame.requestId.id] = <<store(@[1], frame.body.text)>>]
                 ELSE message_replies
           /\ msg_in' = IF queued
                        THEN channel_send(msg_in, IncomingMessage(frame.msgType.text, k.key))
                        ELSE msg_in
           /\ ws_frame' = [n |-> ws_frame.n + 1, frame |-> frame, queued |-> queued]
    /\ UNCHANGED <<clock, waiting, reply_op>>
    /\ InRest

\* receive_message: `self.message_receiver.try_recv().ok()`
ReceiveMessage ==
    /\ msg_in # <<>>
    /\ msg_in' = Tail(msg_in)
    /\ UNCHANGED <<ws_frame, replyVars>>
    /\ InRest

NextIn ==
    \/ \E frame \in Frames : WsMessage(frame)
    \/ ReceiveMessage
    \/ SendMessage

SpecIn == SpecReplyInit /\ [][NextIn]_vars

\* A frame has been handed to ws_on_msg in this step.
FrameStep == ws_frame'.n = ws_frame.n + 1
IsReply(f) == f.msgType.str /\ f.msgType.text = "__reply__"
WellFormed(f) == f.msgType.str /\ f.content = "object"

\* C40: an inbound `message` frame that is no reply is queued with reply_key = None when
\* it has no requestId and with reply_key = (srcId, requestId) when both are strings; a
\* frame that has a requestId without a string srcId, or lacks a string msgType or an
\* object content, is dropped: the message queue and the reply table are unchanged.
C40_InboundMessage ==
    [][(FrameStep /\ ~IsReply(ws_frame'.frame)) =>
        LET f == ws_frame'.frame IN
        /\ message_replies' = message_replies
        /\ (WellFormed(f) /\ ~f.requestId.has) =>
              msg_in' = Append(msg_in, [msg_type |-> f.msgType.text, reply_key |-> <<>>])
        /\ (WellFormed(f) /\ f.requestId.str /\ f.srcId.str) =>
              msg_in' = Append(msg_in,
                               [msg_type |-> f.msgType.text,
                                reply_key |-> <<[src_id |-> f.srcId.text,
                                                 request_id |-> f.requestId.id]>>])
        /\ ((f.requestId.has /\ ~f.srcId.str) \/ ~WellFormed(f)) => msg_in' = msg_in
       ]_vars

\* C40 witness: a message with a reply key is in the queue, and the last frame, which
\* had a requestId and no srcId, was dropped.
C40_Witness ==
    /\ Len(msg_in) = 1
    /\ msg_in[1].reply_key # <<>>
    /\ ws_frame.n = 2
    /\ WellFormed(ws_frame.frame) /\ ~IsReply(ws_frame.frame)
    /\ ws_frame.frame.requestId.str /\ ~ws_frame.frame.srcId.has
    /\ ~ws_frame.queued

\* ------------------------------------------------------------------------
\* poll_reply on a key without an entry (system.rs:349-360)
\* ------------------------------------------------------------------------

\* `message_replies.get(key).unwrap()` on None: the call panics, and with it the
\* scheduler task that made it.
Aborted == [tag |-> "Panic", value |-> <<>>]
\* A poll_reply that answers Completed(None) for a key without an entry.
poll_reply_or_none(table, key, now) ==
    IF get(table, key) = <<>> THEN [result |-> Completed(<<>>), table |-> table]
    ELSE poll_reply(table, key, now)
\* poll_reply on any key.
poll_reply_unwrap(table, key, now) ==
    IF get(table, key) = <<>> THEN [result |-> Aborted, table |-> table]
    ELSE poll_reply(table, key, now)

\* The scheduler task has not panicked in poll_reply.
Alive39 == reply_op.result.tag # "Panic"

\* poll_reply called with any key: one a process holds, one it was already told is
\* completed, or one send_message never returned.
PollAnyKey(key) ==
    /\ Alive39
    /\ LET r == poll_reply_unwrap(message_replies, key, clock) IN
        /\ message_replies' = r.table
        /\ waiting' = IF r.result.tag = "Completed" THEN waiting \ {key} ELSE waiting
        /\ reply_op' = [op |-> "poll", key |-> key, now |-> clock, result |-> r.result]
    /\ UNCHANGED clock
    /\ ReplyRest

\* The scheduler task sends while it lives; the callback locks the table, whose mutex the
\* panic has poisoned (`message_replies.lock().unwrap()`).
SendWhileAlive ==
    /\ Alive39
    /\ SendMessage
WsReplyWhileAlive(key, value) ==
    /\ Alive39
    /\ WsReply(key, value)

NextPollAny ==
    \/ SendWhileAlive
    \/ \E key \in FrameIds, value \in ReplyValues : WsReplyWhileAlive(key, value)
    \/ \E key \in FrameIds : PollAnyKey(key)
    \/ \E d \in ClockSteps : ClockTick(d)

SpecPollAny == SpecReplyInit /\ [][NextPollAny]_vars

\* The keys send_message has returned so far, and those whose entry poll_reply removed.
Allocated == DOMAIN message_replies
Removed == {k \in Allocated : message_replies[k] = <<>>}

\* C39: poll_reply is safe only on a key whose entry is in the table. Called on a key
\* whose entry an earlier poll removed (it returned Completed, with a value or on
\* timeout) or on a key send_message never allocated, it aborts in the unwrap and
\* returns neither Pending nor Completed(None); on a key with an entry it does not abort.
C39_PollMissingAborts ==
    [][ReplyStep("poll") =>
        LET key == reply_op'.key IN
        /\ (key \in Removed \/ key \notin Allocated) =>
              /\ reply_op'.result = Aborted
              /\ message_replies' = message_replies
        /\ (key \in Allocated \ Removed) => reply_op'.result.tag \in {"Pending", "Completed"}
       ]_vars

\* C39 witness: a key was polled to Completed, polled again, and the call aborted.
C39_Witness ==
    /\ reply_op.op = "poll"
    /\ reply_op.result = Aborted
    /\ reply_op.key \in Removed

\* ------------------------------------------------------------------------
\* The stored project (lib.rs:83-90, 607-614, 627-641)
\* ------------------------------------------------------------------------

\* The stored project is absent or one that open_project and get_env accept.
StoredLoads == project = <<>> \/ ~FailsToLoad(project[1])
\* The entry is written by the SetProject arm only, after open_project and get_env have
\* taken the XML of the command and the Env compiled from it is the running one.
StoreStep ==
    project' # project =>
        /\ spc = "persist"
        /\ command # <<>> /\ command[1].cmd = "SetProject"
        /\ ~FailsToLoad(command[1].arg)
        /\ running_env = command[1].arg
        /\ project' = <<command[1].arg>>

\* C35: the stored project is written only after that same XML has been parsed to
\* exactly one role and compiled, so in every state the loop reaches the stored project
\* is absent or loadable and loading it at the next boot does not fail.
C35_StoredProjectLoads == [](StoredLoads) /\ [][StoreStep]_vars

\* C35 witness: a project was stored, a later one was refused, and the stored one is
\* still the one that loads.
C35_Witness ==
    /\ spc = "check"
    /\ Len(applied) >= 2
    /\ applied[Len(applied) - 1].cmd = "SetProject"
    /\ project = <<applied[Len(applied) - 1].arg>>
    /\ LastApplied.cmd = "SetProject" /\ FailsToLoad(LastApplied.arg)

\* ------------------------------------------------------------------------
\* The replaced project is not started (lib.rs:607-617, 627-649)
\* ------------------------------------------------------------------------

IsInput(c) == c.cmd = "Input"
\* The inputs among the commands applied after the i-th.
InputsAfter(i) ==
    LET ins == SelectSeq(SubSeq(applied, i + 1, Len(applied)), IsInput)
    IN  [k \in 1..Len(ins) |-> ins[k].arg]
\* What the running Env has been given: the boot project its Start and every input
\* applied since, a replaced project the inputs applied after its SetProject only.
EnvInputsOk ==
    BetweenArms =>
        env_inputs = IF LoadedIdx = {} THEN <<"Start">> \o InputsAfter(0)
                     ELSE InputsAfter(Max(LoadedIdx))
\* The loop's steps into and out of the swap (the SetProject arm of a project that
\* loads) give the new Env no input and leave the flag alone; an Env is given Start only by the Input arm on Input(Start).
ReplaceStep ==
    /\ (spc' # spc /\ (spc = "persist" \/ spc' = "persist")) =>
          /\ running' = running
          /\ spc' # "panicked" => env_inputs' = <<>>
    /\ (env_inputs' # env_inputs /\ env_inputs' # <<>>) =>
          /\ spc = "apply" /\ command # <<>> /\ IsInput(command[1])
          /\ env_inputs' = Append(env_inputs, command[1].arg)

\* C38: after a SetProject that loads, the scheduler gives the new Env no Input::Start:
\* unlike the boot project, which is started at once, the replaced project stays
\* unstarted until a later Input(Start) is taken from the queue, and the replacement
\* does not change the running flag.
C38_ReplacedNotStarted == [](EnvInputsOk) /\ [][ReplaceStep]_vars

\* C38 witness: the loop steps a replaced project that has been given no input.
C38_Witness ==
    /\ spc = "batch"
    /\ LoadedIdx # {}
    /\ LastApplied.cmd = "SetProject"
    /\ running_env = LastApplied.arg
    /\ env_inputs = <<>>
    /\ running

\* ------------------------------------------------------------------------
\* The pushes of one message, push by push, against POST /pull
\* (lib.rs:150-170, 577-585, 660-669)
\* ------------------------------------------------------------------------

\* Where the loop holds the runtime lock: it has pushed the text of a message to the
\* output ring, it has pushed the newline and goes on to the error line, it has pushed
\* the error line.
LockedPcs == {"out_msg", "err", "err_msg"}
\* A lock that is granted whoever holds it.
lock_ignored(pc) == TRUE
\* `self.runtime.lock()` returns to the handler: the loop is not inside a section.
lock_free(pc) == pc \notin LockedPcs

\* StringRing::push of a text that does not end its line, and of "\n".
push_text(ring, id, lines) == ring_push(ring, [id |-> id, lines |-> lines, nl |-> FALSE])
push_newline(ring) == [ring EXCEPT ![Len(ring)].nl = TRUE]

SectionRest ==
    /\ UNCHANGED <<commands, inflight, running, command, enqueued, applied, nextId>>
    /\ UNCHANGED <<running_env, env_inputs, project, pulls>>
    /\ UNCHANGED <<batch_i, steps_since_gc>>
    /\ UNCHANGED <<bindVars, callVars, pulseVars, inVars, replyVars, wifiVars, outVars>>

\* `runtime.lock().unwrap()` and `runtime.output.push(&msg)` of tee_println!, for a
\* Print command or for a step error.
PushMsg(res) ==
    /\ spc = "batch"
    /\ nextLine < MaxLines
    /\ output' = push_text(output, nextLine, IF res = "error" THEN ErrorMsg ELSE PrintMsg)
    /\ step_res' = res
    /\ spc' = "out_msg"
    /\ UNCHANGED <<runtime_errors, nextLine>>
    /\ SectionRest
\* `runtime.output.push("\n")`; after a Print command the lock is dropped here.
PushNewline ==
    /\ spc = "out_msg"
    /\ output' = push_newline(output)
    /\ spc' = IF step_res = "error" THEN "err" ELSE "batch"
    /\ nextLine' = IF step_res = "error" THEN nextLine ELSE nextLine + 1
    /\ UNCHANGED <<runtime_errors, step_res>>
    /\ SectionRest
\* `runtime.errors.push(&err_str)`
PushError ==
    /\ spc = "err"
    /\ runtime_errors' = push_text(runtime_errors, nextLine, <<"{json}">>)
    /\ spc' = "err_msg"
    /\ UNCHANGED <<output, nextLine, step_res>>
    /\ SectionRest
\* `runtime.errors.push("\n")` and the end of the block: the lock is dropped.
PushErrorNewline ==
    /\ spc = "err_msg"
    /\ runtime_errors' = push_newline(runtime_errors)
    /\ nextLine' = nextLine + 1
    /\ spc' = "batch"
    /\ UNCHANGED <<output, step_res>>
    /\ SectionRest
\* PullStatusHandler::handle once `self.runtime.lock()` has returned.
PullLocked ==
    /\ lock_free(spc)
    /\ PullStatus

NextSection ==
    \/ SchedPop
    \/ SchedApply
    \/ SchedCheckRunning
    \/ \E res \in {"print", "error"} : PushMsg(res)
    \/ PushNewline
    \/ PushError
    \/ PushErrorNewline
    \/ SchedBatch
    \/ PullLocked

\* The loop is reached; the boot messages are in the output ring with their newlines.
InitSection ==
    /\ InitSched
    /\ project = <<>>
    /\ running_env = EmptyProject
    /\ env_inputs = input(from_init, "Start")
    /\ output = <<[id |-> 0, lines |-> BootingMsg, nl |-> TRUE],
                  [id |-> 1, lines |-> StartingMsg, nl |-> TRUE]>>
    /\ runtime_errors = <<>>
    /\ pulls = [output |-> <<>>, errors |-> <<>>, last |-> <<>>, prev |-> 0, upto |-> 0]
    /\ nextLine = 2

SpecSectionInit == InitEmptyLayout /\ pixel = <<>> /\ call = IdleCall /\ InitSection /\ InitBusOff
SpecSection == SpecSectionInit /\ [][NextSection]_vars

\* C36: the output line of an error and its JSON line in the errors ring, each with
\* its newline, are pushed within one critical section, and so are the text of a print
\* and its newline: no /pull, however it falls between the pushes of the loop, returns
\* a `>>> error` message without the matching error object or a line without its
\* newline.
C36_PushesInOneSection ==
    pulls.last # <<>> =>
        LET out == pulls.last.output
            errs == pulls.last.errors
        IN  /\ \A i \in 1..Len(out) : out[i].nl
            /\ \A j \in 1..Len(errs) : errs[j].nl
            /\ \A i \in 1..Len(out) :
                  out[i].lines = ErrorMsg => \E j \in 1..Len(errs) : errs[j].id = out[i].id

\* C36 witness: a pull has returned an error message with its object, and the loop is
\* inside its next section, the text of a message pushed and its newline not yet.
C36_Witness ==
    /\ pulls.last # <<>>
    /\ \E i \in 1..Len(pulls.last.output) : pulls.last.output[i].lines = ErrorMsg
    /\ pulls.last.errors # <<>>
    /\ spc = "out_msg"
    /\ ~output[Len(output)].nl

\* ------------------------------------------------------------------------
\* What a failed entry leaves in the ledger (platform.rs:159-170, 204-214, 492-522)
\* ------------------------------------------------------------------------

\* A layout entry has been read in this step; the entry and, if it failed, its error.
Logged == Len(log') = Len(log) + 1
NewEntry == log'[Len(log')]
NewError == errors'[Len(errors')]
\* The contexts of an error at the first and at the second pin of an entry.
FirstLegs == {"gpio", "gpio_sda", "gpio_pos", "gpio_trigger"}
SecondLegs == {"gpio_scl", "gpio_neg", "gpio_echo"}
\* Pins the ledger has marked taken and no bound handle holds.
Leaked == ((0..LastPin) \ pins) \ HeldPins
\* The failed entry had taken its first / its second pin before it failed.
TookFirst ==
    /\ Len(NewEntry.gpios) >= 1
    /\ \/ NewError.context[3] \in SecondLegs
       \/ NewEntry.tag \in {"NameAlreadyTaken", "EspError"}
       \/ NewEntry.tag = "PwmOutOfChannels" /\ NewError.context[3] # ""
TookSecond ==
    /\ Len(NewEntry.gpios) = 2
    /\ \/ NewError.context[3] = "" /\ NewEntry.tag \in {"NameAlreadyTaken", "EspError"}
       \/ NewError.context[3] \in SecondLegs /\ NewEntry.tag \in {"EspError", "PwmOutOfChannels"}

\* Nothing goes back to the ledger or to the PWM pool, and what a failed entry took
\* before it failed, the pin of a PinInsufficientCapability included, is gone.
LedgerStep ==
    /\ pins' \subseteq pins
    /\ channels' \subseteq channels
    /\ (Logged /\ ~NewEntry.ok) =>
          /\ NewEntry.tag = "PinInsufficientCapability" =>
                NewEntry.pin \in pins /\ NewEntry.pin \notin pins'
          /\ TookFirst => NewEntry.gpios[1] \in Leaked'
          /\ TookSecond => NewEntry.gpios[2] \in Leaked'
          /\ (NewEntry.kind = "motors" /\ TookFirst /\ NewEntry.tag # "PwmOutOfChannels") =>
                channels' # channels
\* The pins of the entry read in this step that were leaked before it.
NamesLeaked == {k \in 1..Len(NewEntry.gpios) : NewEntry.gpios[k] \in Leaked}
\* An entry that names a leaked pin fails with PinAlreadyTaken or PwmOutOfChannels.
BlockedByTaken ==
    (Logged /\ NamesLeaked # {}) =>
        ~NewEntry.ok /\ NewEntry.tag \in {"PinAlreadyTaken", "PwmOutOfChannels"}
\* An entry that names a leaked pin fails: with PinAlreadyTaken for that pin, unless
\* the PWM pool or the pin it names first has failed it before that pin was asked for.
BlockedOrSooner ==
    (Logged /\ NamesLeaked # {}) =>
        /\ ~NewEntry.ok
        /\ \A k \in NamesLeaked :
              \/ /\ NewEntry.tag = "PinAlreadyTaken"
                 /\ NewEntry.pin = NewEntry.gpios[k]
                 /\ NewError.context[3] \in (IF k = 1 THEN FirstLegs ELSE SecondLegs)
              \/ NewEntry.tag = "PwmOutOfChannels"
              \/ k = 2 /\ NewError.context[3] \in FirstLegs

BusFrames ==
    {[msgType |-> StringField("__reply__"), content |-> "object", body |-> StringField("42"),
      requestId |-> IdField(1), srcId |-> NoField],
     [msgType |-> StringField("hello"), content |-> "object", body |-> NoField,
      requestId |-> NoField, srcId |-> NoField],
     [msgType |-> StringField("hello"), content |-> "object", body |-> NoField,
      requestId |-> IdField(1), srcId |-> StringField("peer")],
     [msgType |-> StringField("hello"), content |-> "absent", body |-> NoField,
      requestId |-> NoField, srcId |-> NoField]}

\* ws_on_msg on a text frame whose "type" is "ping":
\* `ws_sender_clone.send(json!({ "type": "pong" }).to_string()).unwrap()`
WsPing ==
    /\ ws_frame.n < MaxFrames
    /\ sending # <<Dead>>
    /\ ws_chan' = channel_send(ws_chan, ControlFrame("pong"))
    /\ ws_frame' = [n |-> ws_frame.n + 1, frame |-> NoFrame.frame, queued |-> FALSE]
    /\ UNCHANGED <<msg_in, msg_out, shaping, sending, wire, sent>>
    /\ UNCHANGED <<bindVars, callVars, schedVars, projVars, replyVars, wifiVars, batchVars,
                   pulseVars>>

\* A step of the batch in which a process of the running Env sends a message and
\* waits for the reply.
StepSendMessage ==
    /\ spc = "batch"
    /\ SendMessage

NextMutate ==
    \/ InputHandlerBegin("start")
    \/ SetProjectHandlerBegin("<room>")
    \/ HandlerPush
    \/ SchedPop
    \/ SchedApply
    \/ SchedPersist(TRUE)
    \/ SchedCheckRunning
    \/ SchedStep("print")
    \/ StepSendMessage
    \/ SchedBatch
    \/ \E frame \in BusFrames : WsMessage(frame)
    \/ WsPing

SpecMutate == SpecSchedInit /\ [][NextMutate]_vars

\* The Env, what it has been given, and what its steps have printed and sent.
VmState == <<running_env, env_inputs, nextLine, output, runtime_errors, sent>>
\* A step of InputHandler::handle or SetProjectHandler::handle.
HandlerStep == nextId' # nextId \/ inflight' # inflight
\* The state a step of the loop is made from: the arms of `match command`, the batch.
InLoop == spc \in {"apply", "persist", "batch"}

\* The VM is changed by the loop only; a request to /input or /project appends its
\* one command and changes nothing else.
LoopOnly ==
    /\ VmState' # VmState => (InLoop /\ ~HandlerStep /\ ~FrameStep)
    /\ HandlerStep =>
          /\ UNCHANGED <<running, spc, command, applied, projVars, busVars>>
          /\ IF nextId' # nextId THEN commands' = commands
             ELSE \E c \in inflight : commands' = Append(commands, c)
                                        /\ inflight' = inflight \ {c}
\* A frame of the web socket changes the reply table or the message queue at most.
FrameWritesTable ==
    FrameStep =>
        /\ UNCHANGED <<schedVars, projVars, clock, waiting, reply_op, wifiVars, batchVars,
                       outVars, pulseVars>>
        /\ message_replies' = message_replies \/ msg_in' = msg_in
\* The same, but a ping is answered with a pong on the outbound channel.
FrameWritesTableOrPong ==
    FrameStep =>
        /\ UNCHANGED <<schedVars, projVars, clock, waiting, reply_op, wifiVars, batchVars,
                       msg_out, shaping, sending, wire, sent, pulseVars>>
        /\ \/ /\ ws_chan' = ws_chan
              /\ message_replies' = message_replies \/ msg_in' = msg_in
           \/ /\ ws_chan' = Append(ws_chan, ControlFrame("pong"))
              /\ message_replies' = message_replies /\ msg_in' = msg_in

\* C33 (as stated): the loop is the sole mutator of the VM: no HTTP handler and no
\* web-socket callback calls project.input or project.step or replaces the Env; POST
\* /input and POST /project only append one command to the queue, and an inbound frame
\* only writes a value of the reply table or pushes to the message queue.
C33_LoopSoleMutator == [][LoopOnly /\ FrameWritesTable]_vars

\* C33 (amended): as above, but an inbound ping frame has a third effect, outside the
\* VM: a pong frame is appended to the outbound channel of the web socket.
C33_LoopSoleMutatorOrPong == [][LoopOnly /\ FrameWritesTableOrPong]_vars

\* C33 witness: a command posted over HTTP waits in the queue, a reply frame has
\* written the value of a request a process of the Env waits for, a message frame is
\* in the message queue, and the Env and its inputs are those of the boot.
C33_Witness ==
    /\ commands # <<>>
    /\ Len(message_replies) >= 1 /\ message_replies[1] # <<>>
    /\ message_replies[1][1].value # <<>>
    /\ msg_in # <<>>
    /\ applied = <<>>
    /\ env_inputs = <<"Start">>

\* ------------------------------------------------------------------------
\* The drain of the command queue (lib.rs:624-654)
\* ------------------------------------------------------------------------

\* The loop against the HTTP server: inputs, a project that loads and one whose role
\* does not compile, and the pause toggle. The store takes every project.
NextDrain ==
    \/ \E body \in {"start", "stop"} : InputHandlerBegin(body)
    \/ \E body \in {"<room>", "<nocompile>"} : SetProjectHandlerBegin(body)
    \/ HandlerPush
    \/ TogglePaused
    \/ SchedPop
    \/ SchedApply
    \/ SchedPersist(TRUE)
    \/ SchedCheckRunning
    \/ SchedBatch

\* The loop is a thread of its own and never waits: each of its steps is taken once
\* it can be. Nothing is assumed of the requests.
LoopFair ==
    /\ WF_vars(SchedPop)
    /\ WF_vars(SchedApply)
    /\ WF_vars(SchedPersist(TRUE))
    /\ WF_vars(SchedCheckRunning)
    /\ WF_vars(SchedBatch)

SpecDrain == SpecSchedInit /\ [][NextDrain]_vars /\ LoopFair

\* The commands the handlers can append.
Commands ==
    {InputCommand(id, x) : id \in 0..MaxCommands, x \in {"Start", "Stop"}}
    \cup {SetProjectCommand(id, xml) : id \in 0..MaxCommands, xml \in {"<room>", "<nocompile>"}}
Queued(c) == \E i \in 1..Len(commands) : commands[i] = c
Applied(c) == \E i \in 1..Len(applied) : applied[i] = c
\* An iteration of the loop (pop, arm, check) applies one command at most.
OnePerIteration ==
    applied' # applied =>
        /\ spc \in {"apply", "persist"} /\ spc' = "check"
        /\ \E c \in Commands : applied' = Append(applied, c) /\ command = <<c>>

\* C34: every command appended to the queue is eventually applied by the loop, one
\* command per iteration at most, whether the device runs or is paused.
C34_EveryCommandApplied ==
    /\ \A c \in Commands : Queued(c) ~> Applied(c)
    /\ [][OnePerIteration]_vars
====
